---- MODULE Spec2Model ----
(***************************************************************************)
(* vite-plugin-chunked: the plugin's build hooks, the build-time chunker,  *)
(* the generated service                                                   *)
(* worker (interception layer), the page-side chunk fetcher                *)
(* (downloadChunkedFile) with the useChunkedDownload hook and the          *)
(* DownloadManager component, the loader's built-in download path and the  *)
(* loader's bootstrap (service worker handshake, application loading).     *)
(*                                                                         *)
(* Strings are sequences of tokens: "/", "?" and "_" are tokens of their   *)
(* own,                                                                    *)
(* an extension (".js", ".zip") is one token, so endsWith, includes,       *)
(* slice(1) and split('?')[0] are the sequence operations below.           *)
(* Bytes are small naturals; a buffer is a sequence of bytes.              *)
(***************************************************************************)
EXTENDS Integers, Sequences, FiniteSets, TLC

(***************************************************************************)
(* Bounds of the model                                                     *)
(***************************************************************************)
\* longest file content drawn for the chunker round trip
MaxLen == 4
\* largest chunk size (in bytes) and largest concurrency drawn
MaxChunkSize == 2
MaxConcurrency == 2
\* fetch events the service worker handles concurrently
MaxReq == 1
\* loadManifest() fetches started during one run
MaxLoads == 2
\* successful DNS refreshes (readings of Date.now()) during one run
\* fetch events handled at a time in the block-detection specification
MaxNav == 2

\* length of the DNS domain chain
MaxDomains == 3

MaxClock == 1

\* stylesheets and scripts the loader was generated with
MaxStyles == 2
MaxScripts == 2
\* the counters of one tab (reloads, toasts, downloads) stop counting here
MaxCount == 3
\* files of the bundle in the build specification
MaxFiles == 2

Bytes == {0, 1}

(***************************************************************************)
(* String helpers (String.prototype methods used by the source)            *)
(***************************************************************************)
Min(a, b) == IF a < b THEN a ELSE b

CeilDiv(a, b) == (a + b - 1) \div b

EndsWith(s, suf) ==
    /\ Len(suf) <= Len(s)
    /\ SubSeq(s, Len(s) - Len(suf) + 1, Len(s)) = suf

StartsWith(s, pre) ==
    /\ Len(pre) <= Len(s)
    /\ SubSeq(s, 1, Len(pre)) = pre

Includes(s, sub) ==
    \E i \in 1..(Len(s) - Len(sub) + 1) : SubSeq(s, i, i + Len(sub) - 1) = sub

\* s.slice(1)
Slice1(s) == IF s = << >> THEN << >> ELSE Tail(s)

\* s.split('?')[0]
SplitQuery0(s) ==
    IF \E i \in 1..Len(s) : s[i] = "?"
    THEN SubSeq(s, 1, (CHOOSE i \in 1..Len(s) : s[i] = "?" /\ \A j \in 1..(i - 1) : s[j] # "?") - 1)
    ELSE s

\* token.toLowerCase()
LowerTok(t) == IF t = ".ZIP" THEN ".zip" ELSE t

ToLowerCase(s) == [i \in 1..Len(s) |-> LowerTok(s[i])]

\* s.replace(/\//g, '_')
ReplaceSlashes(s) == [i \in 1..Len(s) |-> IF s[i] = "/" THEN "_" ELSE s[i]]

\* new URL(request.url).pathname: the path of the URL, without its query
UrlPathname(url) == SplitQuery0(url)

(***************************************************************************)
(* types.ts                                                                *)
(***************************************************************************)
Chunkable == {".js", ".css", ".zip"}

Downloadable == {".zip"}

MimeOf(ext) ==
    CASE ext = ".js" -> "application/javascript"
      [] ext = ".css" -> "text/css"
      [] ext = ".zip" -> "application/zip"
      [] OTHER -> "application/octet-stream"

\* path.extname(p).toLowerCase(): the extension is the last token
ExtName(p) == IF p = << >> THEN "" ELSE LowerTok(p[Len(p)])

\* path.basename(p): the tokens after the last "/"
RECURSIVE BaseName(_)
BaseName(p) ==
    IF \E i \in 1..Len(p) : p[i] = "/"
    THEN BaseName(Tail(p))
    ELSE p

(***************************************************************************)
(* chunker.ts: chunkAssets                                                 *)
(***************************************************************************)
\* Math.ceil(content.length / chunkSizeBytes)
TotalChunks(content, chunkSizeBytes) == CeilDiv(Len(content), chunkSizeBytes)

\* off-by-one variant of the slice: the chunk starts one byte late
ChunkSliceLate(content, chunkSizeBytes, i) ==
    SubSeq(content, i * chunkSizeBytes + 2,
           Min(i * chunkSizeBytes + chunkSizeBytes, Len(content)))

\* content.subarray(start, end), start = i * size, end = min(start + size, length)
ChunkSlice(content, chunkSizeBytes, i) ==
    SubSeq(content, i * chunkSizeBytes + 1,
           Min(i * chunkSizeBytes + chunkSizeBytes, Len(content)))

\* the parts written for one file: index -> bytes
FileParts(content, chunkSizeBytes) ==
    [i \in 0..(TotalChunks(content, chunkSizeBytes) - 1) |->
        ChunkSlice(content, chunkSizeBytes, i)]

ChunkedDirName(relativePath) == ReplaceSlashes(relativePath)

ChunkedPathOf(relativePath) == <<"_chunks", "/">> \o ChunkedDirName(relativePath)

AssetType(ext) ==
    IF ext = ".css" THEN "css" ELSE IF ext = ".js" THEN "js" ELSE "other"

FileMeta(file, chunkSizeBytes) ==
    [totalChunks |-> TotalChunks(file.content, chunkSizeBytes),
     fileName |-> BaseName(file.relativePath),
     fileSize |-> Len(file.content),
     mimeType |-> MimeOf(ExtName(file.relativePath))]

FileAsset(file, chunkSizeBytes) ==
    [originalPath |-> file.relativePath,
     chunkedPath |-> ChunkedPathOf(file.relativePath),
     type |-> AssetType(ExtName(file.relativePath)),
     size |-> Len(file.content),
     chunks |-> TotalChunks(file.content, chunkSizeBytes)]

\* the two `continue` guards of the loop
IsChunked(file, chunkSizeBytes) ==
    /\ ExtName(file.relativePath) \in Chunkable
    /\ Len(file.content) > chunkSizeBytes

\* the loop over the files: the manifest's assets and the chunk directories
\* written to disk (a directory written twice keeps the later meta.json and,
\* part by part, the later parts)
RECURSIVE chunkAssets(_, _, _)
chunkAssets(files, chunkSizeBytes, acc) ==
    IF files = << >> THEN acc
    ELSE LET file == Head(files)
             dir == ChunkedPathOf(file.relativePath)
             old == IF dir \in DOMAIN acc.disk THEN acc.disk[dir].parts ELSE << >>
             new == FileParts(file.content, chunkSizeBytes)
             written == [i \in (DOMAIN old) \cup (DOMAIN new) |->
                            IF i \in DOMAIN new THEN new[i] ELSE old[i]]
             entry == [meta |-> FileMeta(file, chunkSizeBytes), parts |-> written]
         IN  IF IsChunked(file, chunkSizeBytes)
             THEN chunkAssets(Tail(files), chunkSizeBytes,
                     [assets |-> Append(acc.assets, FileAsset(file, chunkSizeBytes)),
                      disk |-> [d \in (DOMAIN acc.disk) \cup {dir} |->
                                   IF d = dir THEN entry ELSE acc.disk[d]]])
             ELSE chunkAssets(Tail(files), chunkSizeBytes, acc)

EmptyBuild == [assets |-> << >>, disk |-> << >>]

\* lines 122-124: the file lies in a directory named _chunks
InChunksDir(relativePath) ==
    \E i \in 1..(Len(relativePath) - 1) :
        relativePath[i] = "_chunks" /\ relativePath[i + 1] = "/"

\* lines 113-131: findFiles lists the files of the build directory in the
\* order readdir returns them and leaves out the directories named _chunks
findFiles(dir) == SelectSeq(dir, LAMBDA file : ~InChunksDir(file.relativePath))

BuildOf(files, chunkSizeBytes) == chunkAssets(files, chunkSizeBytes, EmptyBuild)

(***************************************************************************)
(* State                                                                   *)
(***************************************************************************)
VARIABLES
    \* the build: the files given to the chunker, the chunk size in bytes
    \* (config.chunkSize * 1024, scaled down to a few bytes),
    \* the chunk directories on the server and the manifest's assets
    buildFiles, chunkSizeBytes, disk, manifestAssets,
    \* the run of `vite build` that produces them: the hooks of the plugin
    \* that have run, the emitted index.html, the scripts and stylesheets
    \* taken out of it and the files the plugin has generated
    vite,
    \* config.concurrency of the build
    configConcurrency,
    \* window.__CHUNKED_CONFIG__.concurrency (0: not set)
    windowConcurrency,
    \* one downloadChunkedFile call
    dl,
    \* the useChunkedDownload hook whose download() made that call: its React
    \* state and the AbortController of the call
    hook,
    \* the service worker: lifecycle state, the globals chunkedAssets,
    \* manifestLoaded, manifestPromise and BLOCK_CONFIG, the promise of every
    \* loadManifest() fetch still pending (loads) and the number started so far
    \* (nLoads), the load the last RELOAD_MANIFEST message started (lastReload,
    \* 0: none), the load the install event waits for, the
    \* fetch events being handled, and the clock read by Date.now()
    swState, chunkedAssets, manifestLoaded, manifestPromise, loads, nLoads, lastReload, installLoad,
    BLOCK_CONFIG, dnsDomains, req, now,
    \* one download of the loader's built-in download manager
    ld,
    \* one browser tab running the generated loader: the page's view of the
    \* service worker registration, the handshake of ensureSWReady, the
    \* stylesheets and scripts of the application, the download handler
    boot

buildVars == <<buildFiles, chunkSizeBytes, disk, manifestAssets, vite, configConcurrency>>

dlVars == <<windowConcurrency, dl, hook>>

swVars == <<swState, chunkedAssets, manifestLoaded, manifestPromise, loads, nLoads, lastReload, installLoad,
            BLOCK_CONFIG, dnsDomains, req, now>>

ldVars == <<ld>>

bootVars == <<boot>>

vars == <<buildVars, dlVars, swVars, ldVars, bootVars>>

(***************************************************************************)
(* The server: outcomes of a request                                       *)
(***************************************************************************)
\* a response with response.ok, one without, or a rejected fetch
Outcomes == {"ok", "notok", "neterr"}

(***************************************************************************)
(* client/useChunkedDownload.ts: downloadChunkedFile, downloadDirect       *)
(***************************************************************************)
DefaultConcurrency == 6

\* config.concurrency || 6
Concurrency == IF windowConcurrency = 0 THEN DefaultConcurrency ELSE windowConcurrency

\* assetPath.startsWith('/') ? assetPath.slice(1) : assetPath
NormalizedPath(assetPath) ==
    IF StartsWith(assetPath, <<"/">>) THEN Slice1(assetPath) ELSE assetPath

\* manifest.assets.find(a => a.originalPath === p || a.originalPath === '/' + p)
FindAssetIdx(assets, p) ==
    LET hits == {i \in 1..Len(assets) :
                    \/ assets[i].originalPath = p
                    \/ assets[i].originalPath = <<"/">> \o p}
    IN  IF hits = {} THEN 0 ELSE CHOOSE i \in hits : \A j \in hits : i <= j

\* variant: the share that is still to be loaded
RemainingPercent(loaded, total) == 100 - ((200 * loaded + total) \div (2 * total))

\* Math.round((loaded / total) * 100)
RoundPercent(loaded, total) == (200 * loaded + total) \div (2 * total)

\* concatenation of buffers chunks[0], chunks[1], ... in index order
RECURSIVE ConcatFrom(_, _, _)
ConcatFrom(chunks, i, n) ==
    IF i >= n THEN << >> ELSE chunks[i] \o ConcatFrom(chunks, i + 1, n)

\* lines 476-482: combined = the buffers of `chunks` in index order
CombineChunks(chunks) == ConcatFrom(chunks, 0, Cardinality(DOMAIN chunks))

\* the whole batch is issued at once, whatever the concurrency
BatchUnbounded(i, n) == i..(n - 1)

\* lines 455-468: the part indices of the batch that starts at i
BatchIndices(i, n) == i..(Min(i + Concurrency, n) - 1)

\* variant: no message names a part
RejectedWithoutIndex(msg, index) == [msg |-> msg, index |-> -1]

\* a rejection: its message and the part index the message names (-1: none)
NoError == [msg |-> "", index |-> -1]

Rejected(msg, index) == [msg |-> msg, index |-> index]

DlIdle ==
    [pc |-> "idle", path |-> << >>, chunkedPath |-> << >>,
     meta |-> [totalChunks |-> 0, fileName |-> << >>, fileSize |-> 0, mimeType |-> ""],
     i |-> 0, outstanding |-> {}, results |-> << >>, chunks |-> << >>,
     loaded |-> 0, events |-> << >>, batches |-> 0, maxOutstanding |-> 0,
     saved |-> << >>, nsaved |-> 0, error |-> NoError, stream |-> << >>, total |-> 0]

ProgressEvent(loaded, total, percentage, speed, eta, complete) ==
    [loaded |-> loaded, total |-> total, percentage |-> percentage,
     speed |-> speed, eta |-> eta, complete |-> complete]

\* (Date.now() - startTime) / 1000: every reading of the clock is taken one
\* second after the start
Elapsed == 1

\* lines 434-437 and 527-530: speed and eta (in whole numbers)
Speed(loaded) == loaded \div Elapsed

Eta(loaded, total) ==
    IF Speed(loaded) > 0 THEN (total - loaded) \div Speed(loaded) ELSE 0

\* lines 433-448: the event reportProgress passes to onProgress
reportProgress(loaded, fileSize) ==
    ProgressEvent(loaded, fileSize, RoundPercent(loaded, fileSize),
                  Speed(loaded), Eta(loaded, fileSize), FALSE)

\* lines 487-495 and 553-561: the terminal event
TerminalEvent(loaded, total) == ProgressEvent(loaded, total, 100, 0, 0, TRUE)

\* useChunkedDownload lines 23-26: the hook's state. `shown` is progress !==
\* null; abortController is the state of line 26 (TRUE: a controller is held),
\* aborted is controller.signal.aborted of the call in progress, and attached
\* says that the call's onProgress is the hook's callback of lines 39-44.
\* One call made through the hook is followed request by request; `later` is
\* the state of a call made while the followed one was still running, of
\* which only the start and the settling are followed
NoProgress == [shown |-> FALSE, percentage |-> 0, complete |-> FALSE, error |-> ""]

HookIdle ==
    [attached |-> FALSE, isDownloading |-> FALSE, error |-> "", progress |-> NoProgress,
     abortController |-> FALSE, aborted |-> FALSE, later |-> "none"]

\* lines 40-42: the callback throws once the controller is aborted. A call
\* that was given no such callback never sees a throw
Throws(h) == h.attached /\ h.aborted

\* the message of the error the callback throws
Cancelled == "Download cancelled"

\* line 43: setProgress(p)
SetProgress(h, p) ==
    [h EXCEPT !.progress = [shown |-> TRUE, percentage |-> p.percentage,
                            complete |-> p.complete, error |-> ""]]

\* lines 45-52: the call rejected: catch, then finally
HookCatch(h, msg) ==
    [h EXCEPT !.error = msg,
              !.progress = IF @.shown THEN [@ EXCEPT !.error = msg] ELSE @,
              !.isDownloading = FALSE, !.abortController = FALSE]

\* lines 49-52: the call resolved: finally
HookFinally(h) == [h EXCEPT !.isDownloading = FALSE, !.abortController = FALSE]

Settled == {"done", "failed"}

\* what one step of the call does to the hook: the events the step passed to
\* onProgress reach setProgress unless the callback threw (also when the call
\* has settled: the part requests in flight keep the callback), and a step
\* that settles the call runs the catch or the finally of download()
HookAfter(h, d, e) ==
    LET h1 == IF Len(e.events) > Len(d.events) /\ ~Throws(h)
              THEN SetProgress(h, e.events[Len(e.events)]) ELSE h
    IN  IF ~h.attached THEN h
        ELSE IF d.pc \in Settled THEN h1
        ELSE IF e.pc = "failed" THEN HookCatch(h1, e.error.msg)
        ELSE IF e.pc = "done" THEN HookFinally(h1)
        ELSE h1

\* lines 397-407: the call starts with the manifest request
DlStarted(d, assetPath) == [d EXCEPT !.pc = "manifest", !.path = NormalizedPath(assetPath)]

\* downloadChunkedFile called with a callback of the caller's
DLStart(assetPath) ==
    /\ dl.pc = "idle"
    /\ dl' = DlStarted(dl, assetPath)
    /\ UNCHANGED <<buildVars, windowConcurrency, hook, swVars, ldVars, bootVars>>

\* lines 28-44: download(path): the state is reset, a controller created and
\* downloadChunkedFile called with the callback of lines 39-44
HookDownload(path) ==
    /\ ~hook.isDownloading
    /\ dl.pc = "idle"
    /\ hook' = [attached |-> TRUE, isDownloading |-> TRUE, error |-> "",
                progress |-> NoProgress, abortController |-> TRUE, aborted |-> FALSE,
                later |-> "none"]
    /\ dl' = DlStarted(dl, path)
    /\ UNCHANGED <<buildVars, windowConcurrency, swVars, ldVars, bootVars>>

\* the call made through the hook and followed in dl has not settled
Running == hook.attached /\ dl.pc \notin {"idle"} \cup Settled

\* lines 28-37: download(path) called again while the followed call is still
\* running: line 29 looks at isDownloading only; the state is reset and the
\* controller of the new call replaces the one held
HookDownloadAgain ==
    /\ ~hook.isDownloading
    /\ Running
    /\ hook.later = "none"
    /\ hook' = [hook EXCEPT !.isDownloading = TRUE, !.error = "",
                            !.progress = NoProgress, !.abortController = TRUE,
                            !.later = "running"]
    /\ UNCHANGED <<buildVars, windowConcurrency, dl, swVars, ldVars, bootVars>>

\* lines 45-52: the later call settles: its catch, when it rejected, and its
\* finally
HookLaterSettles(ok) ==
    /\ hook.later = "running"
    /\ hook' = IF ok THEN HookFinally([hook EXCEPT !.later = "settled"])
               ELSE HookCatch([hook EXCEPT !.later = "settled"], "network")
    /\ UNCHANGED <<buildVars, windowConcurrency, dl, swVars, ldVars, bootVars>>

\* lines 55-61: cancel()
HookCancel ==
    /\ hook.abortController
    /\ hook' = [hook EXCEPT !.aborted = TRUE, !.error = Cancelled, !.isDownloading = FALSE]
    /\ UNCHANGED <<buildVars, windowConcurrency, dl, swVars, ldVars, bootVars>>

\* lines 407-426: the manifest response; the asset is looked up; the metadata
\* request (or the direct download) is issued
DLManifestResponse(outcome) ==
    /\ dl.pc = "manifest"
    /\ LET idx == FindAssetIdx(manifestAssets, dl.path)
       IN  dl' = IF outcome # "ok"
                 THEN [dl EXCEPT !.pc = "failed",
                          !.error = IF outcome = "notok"
                                    THEN Rejected("Failed to fetch chunked manifest", -1)
                                    ELSE Rejected("network", -1)]
                 ELSE IF idx = 0
                 THEN [dl EXCEPT !.pc = "direct"]
                 ELSE [dl EXCEPT !.pc = "meta",
                          !.chunkedPath = manifestAssets[idx].chunkedPath]
    /\ hook' = HookAfter(hook, dl, dl')
    /\ UNCHANGED <<buildVars, windowConcurrency, swVars, ldVars, bootVars>>

\* lines 423-468: the metadata response; the first batch is issued
DLMetaResponse(outcome) ==
    /\ dl.pc = "meta"
    /\ dl' = IF outcome # "ok"
             THEN [dl EXCEPT !.pc = "failed",
                      !.error = IF outcome = "notok"
                                THEN Rejected("Failed to fetch chunk metadata", -1)
                                ELSE Rejected("network", -1)]
             ELSE LET meta == disk[dl.chunkedPath].meta
                      batch == BatchIndices(0, meta.totalChunks)
                  IN  [dl EXCEPT !.pc = "batch", !.meta = meta, !.i = 0,
                          !.outstanding = batch, !.batches = 1,
                          !.maxOutstanding = Cardinality(batch)]
    /\ hook' = HookAfter(hook, dl, dl')
    /\ UNCHANGED <<buildVars, windowConcurrency, swVars, ldVars, bootVars>>

\* lines 476-495: all batches done: combine, save, terminal progress event
DLFinish(d) ==
    LET called == [d EXCEPT
                     !.saved = CombineChunks(d.chunks), !.nsaved = d.nsaved + 1,
                     !.events = Append(d.events,
                         TerminalEvent(d.meta.fileSize, d.meta.fileSize))]
    IN  IF Throws(hook)
        THEN [called EXCEPT !.pc = "failed", !.error = Rejected(Cancelled, -1)]
        ELSE [called EXCEPT !.pc = "done"]

\* lines 470-474 and the loop header: Promise.all(batch) resolved: the buffers
\* are stored at their index, then the next batch is issued or the file saved
DLBatchResolved(d) ==
    LET stored == [x \in (DOMAIN d.chunks) \cup (DOMAIN d.results) |->
                      IF x \in DOMAIN d.results THEN d.results[x] ELSE d.chunks[x]]
        next == d.i + Concurrency
        batch == BatchIndices(next, d.meta.totalChunks)
        d1 == [d EXCEPT !.chunks = stored, !.results = << >>]
    IN  IF next < d.meta.totalChunks
        THEN [d1 EXCEPT !.i = next, !.outstanding = d.outstanding \cup batch,
                 !.batches = d.batches + 1,
                 !.maxOutstanding =
                     IF Cardinality(d.outstanding \cup batch) > d.maxOutstanding
                     THEN Cardinality(d.outstanding \cup batch) ELSE d.maxOutstanding]
        ELSE DLFinish(d1)

\* lines 457-466: the response of part j. With response.ok the buffer is read,
\* `loaded` grows and reportProgress runs, also when the call has already
\* rejected; a part that is not ok, or whose reportProgress throws, rejects
\* Promise.all
DLPartResponse(j, outcome) ==
    /\ j \in dl.outstanding
    /\ LET buffer == disk[dl.chunkedPath].parts[j]
           gone == [dl EXCEPT !.outstanding = dl.outstanding \ {j}]
           loaded == dl.loaded + Len(buffer)
           reported == [gone EXCEPT !.loaded = loaded,
                           !.events = Append(dl.events,
                              reportProgress(loaded, dl.meta.fileSize))]
           live == dl.pc = "batch"
           got == [reported EXCEPT !.results =
                      [x \in (DOMAIN dl.results) \cup {j} |->
                          IF x = j THEN buffer ELSE dl.results[x]]]
       IN  dl' = IF outcome = "ok"
                 THEN IF ~live THEN reported
                      ELSE IF Throws(hook)
                           THEN [reported EXCEPT !.pc = "failed", !.results = << >>,
                                    !.error = Rejected(Cancelled, -1)]
                      ELSE IF DOMAIN got.results = BatchIndices(dl.i, dl.meta.totalChunks)
                           THEN DLBatchResolved(got)
                           ELSE got
                 ELSE IF live
                      THEN [gone EXCEPT !.pc = "failed", !.results = << >>,
                              !.error = IF outcome = "notok"
                                        THEN Rejected("Failed to fetch chunk", j)
                                        ELSE Rejected("network", -1)]
                      ELSE gone
    /\ hook' = HookAfter(hook, dl, dl')
    /\ UNCHANGED <<buildVars, windowConcurrency, swVars, ldVars, bootVars>>

\* the file the server holds at '/' + path: a file of the build that was not
\* chunked (a chunked file was deleted by the chunker)
ServedFileIdx(path) ==
    LET hits == {i \in 1..Len(buildFiles) :
                    /\ buildFiles[i].relativePath = path
                    /\ ~IsChunked(buildFiles[i], chunkSizeBytes)}
    IN  IF hits = {} THEN 0 ELSE CHOOSE i \in hits : TRUE

\* lines 502-518: downloadDirect's response; content-length may be absent
DLDirectResponse(outcome, hasLength) ==
    /\ dl.pc = "direct"
    /\ outcome = "ok" => ServedFileIdx(dl.path) # 0
    /\ dl' = IF outcome # "ok"
             THEN [dl EXCEPT !.pc = "failed",
                      !.error = IF outcome = "notok"
                                THEN Rejected("Failed to download", -1)
                                ELSE Rejected("network", -1)]
             ELSE LET content == buildFiles[ServedFileIdx(dl.path)].content
                  IN  [dl EXCEPT !.pc = "directRead", !.stream = content,
                          !.total = IF hasLength THEN Len(content) ELSE 0]
    /\ hook' = HookAfter(hook, dl, dl')
    /\ UNCHANGED <<buildVars, windowConcurrency, swVars, ldVars, bootVars>>

\* lines 520-541: one reader.read() that delivers the next n bytes
DLDirectRead(n) ==
    /\ dl.pc = "directRead"
    /\ n \in 1..Len(dl.stream)
    /\ LET value == SubSeq(dl.stream, 1, n)
           loaded == dl.loaded + n
           k == Cardinality(DOMAIN dl.chunks)
           called == [dl EXCEPT !.stream = SubSeq(dl.stream, n + 1, Len(dl.stream)),
                     !.loaded = loaded,
                     !.chunks = [x \in 0..k |-> IF x = k THEN value ELSE dl.chunks[x]],
                     !.events = Append(dl.events,
                        ProgressEvent(loaded, dl.total,
                            IF dl.total > 0 THEN RoundPercent(loaded, dl.total) ELSE 0,
                            Speed(loaded), Eta(loaded, dl.total), FALSE))]
       IN  dl' = IF Throws(hook)
                 THEN [called EXCEPT !.pc = "failed", !.error = Rejected(Cancelled, -1)]
                 ELSE called
    /\ hook' = HookAfter(hook, dl, dl')
    /\ UNCHANGED <<buildVars, windowConcurrency, swVars, ldVars, bootVars>>

\* lines 521-522, 543-561: the stream ends: combine, save, terminal event
DLDirectDone ==
    /\ dl.pc = "directRead"
    /\ dl.stream = << >>
    /\ LET called == [dl EXCEPT
                         !.saved = CombineChunks(dl.chunks), !.nsaved = dl.nsaved + 1,
                         !.events = Append(dl.events,
                                       TerminalEvent(dl.loaded, dl.loaded))]
       IN  dl' = IF Throws(hook)
                 THEN [called EXCEPT !.pc = "failed", !.error = Rejected(Cancelled, -1)]
                 ELSE [called EXCEPT !.pc = "done"]
    /\ hook' = HookAfter(hook, dl, dl')
    /\ UNCHANGED <<buildVars, windowConcurrency, swVars, ldVars, bootVars>>

\* line 521: reader.read() rejects (the connection breaks)
DLDirectReadError ==
    /\ dl.pc = "directRead"
    /\ dl.stream # << >>
    /\ dl' = [dl EXCEPT !.pc = "failed", !.error = Rejected("network", -1)]
    /\ hook' = HookAfter(hook, dl, dl')
    /\ UNCHANGED <<buildVars, windowConcurrency, swVars, ldVars, bootVars>>

(***************************************************************************)
(* sw-generator.ts: the generated service worker                           *)
(***************************************************************************)
Markers == {"M0", "M1"}

\* what a DNS TXT answer parses to: txtData[0], txtData[1], txtData[2]
\* ("" stands for a missing element)
DnsRecords == [flag : {0, 1}, marker : {"", "M1"}, url : {"", "R1"}]

\* the documents the server (or whoever answers in its place) returns for '/':
\* the set of markers the text contains
RootDocs == SUBSET Markers

NoResp ==
    [kind |-> "none", status |-> 0, contentType |-> "", contentLength |-> 0,
     marker |-> FALSE, body |-> << >>, location |-> ""]

\* no DNS answer received yet; no root document read yet
NoAnswer == [flag |-> -1, marker |-> "", url |-> ""]

NoDoc == {"unread"}

\* one fetch event: where its handler stands, what it has requested and received
\* (dnsLog: the domains queried, dnsAnswer: the record a query returned, rootDoc:
\* the markers in the text of '/', exhausted: its DNS chain ran out) and its answer
ReqIdle ==
    [pc |-> "idle", origin |-> "", url |-> << >>, pathname |-> << >>, mode |-> "",
     branch |-> "", load |-> 0, startedLoad |-> FALSE, loadedAtArrival |-> FALSE,
     dnsIdx |-> 0, dnsQueries |-> 0, rootChecked |-> FALSE,
     dnsLog |-> << >>, dnsAnswer |-> NoAnswer, rootDoc |-> NoDoc, exhausted |-> FALSE,
     chunkedPath |-> << >>, mimeType |-> "", totalChunks |-> 0,
     outstanding |-> {}, maxOutstanding |-> 0, results |-> << >>,
     failed |-> FALSE, forwarded |-> FALSE, resp |-> NoResp]

ReqIds == 1..MaxReq

\* Map.prototype.get / set on chunkedAssets (<< >> stands for undefined)
MapGet(m, k) == IF k \in DOMAIN m THEN m[k] ELSE << >>

MapSet(m, k, v) == [x \in (DOMAIN m) \cup {k} |-> IF x = k THEN v ELSE m[x]]

\* variant without the keys "without query string"
StoreAssetWithQuery(m, asset) ==
    MapSet(MapSet(m, <<"/">> \o asset.originalPath, asset.chunkedPath),
           asset.originalPath, asset.chunkedPath)

\* lines 104-110: the four keys stored for one asset
StoreAsset(m, asset) ==
    LET pathWithoutQuery == SplitQuery0(asset.originalPath)
        m1 == MapSet(m, <<"/">> \o asset.originalPath, asset.chunkedPath)
        m2 == MapSet(m1, asset.originalPath, asset.chunkedPath)
        m3 == MapSet(m2, <<"/">> \o pathWithoutQuery, asset.chunkedPath)
    IN  MapSet(m3, pathWithoutQuery, asset.chunkedPath)

\* lines 102-111: chunkedAssets.clear(), then every asset in manifest order
RECURSIVE StoreAssets(_, _)
StoreAssets(m, assets) ==
    IF assets = << >> THEN m
    ELSE StoreAssets(StoreAsset(m, Head(assets)), Tail(assets))

\* lines 177-179
getChunkedPath(m, pathname) ==
    IF MapGet(m, pathname) # << >> THEN MapGet(m, pathname)
    ELSE MapGet(m, Slice1(pathname))

\* lines 173-175
isDownloadable(pathname) ==
    \E ext \in Downloadable : EndsWith(ToLowerCase(pathname), <<ext>>)

\* variant that lets the manifest document through
IsOwnFileButManifest(pathname) ==
    \/ EndsWith(pathname, <<"chunked-sw.js">>)
    \/ EndsWith(pathname, <<"chunked-loader.js">>)

\* line 221
IsOwnFile(pathname) ==
    \/ EndsWith(pathname, <<"chunked-sw.js">>)
    \/ EndsWith(pathname, <<"chunked-loader.js">>)
    \/ EndsWith(pathname, <<"chunked-assets.json">>)

\* line 225
IsChunkStorage(pathname) ==
    \/ Includes(pathname, <<"/", "_chunks", "/">>)
    \/ EndsWith(pathname, <<"/", "meta.json">>)

\* lines 13-18: the current host is put first when block detection is enabled
InitDnsDomains(enabled, extraDomains) ==
    IF enabled
    THEN <<"cur">> \o SelectSeq(extraDomains, LAMBDA d : d # "cur")
    ELSE extraDomains

\* event.respondWith(fetch(event.request)) / return fetch(event.request)
Forward(r) == [r EXCEPT !.pc = "forward", !.forwarded = TRUE]

Respond(r, resp) == [r EXCEPT !.pc = "done", !.resp = resp]

\* lines 131: assembleChunkedResponse issues the metadata request
StartAssemble(r, chunkedPath) ==
    [r EXCEPT !.pc = "meta", !.chunkedPath = chunkedPath]

\* lines 235-243: the continuation once the manifest promise has settled
AfterManifest(r, m) ==
    LET chunkedPath == getChunkedPath(m, r.pathname)
    IN  IF chunkedPath # << >>
        THEN StartAssemble([r EXCEPT !.load = 0], chunkedPath)
        ELSE Forward([r EXCEPT !.load = 0])

\* lines 96-98, 125: the memo is returned, or a new fetch is started
WouldStartLoad == manifestPromise = 0

\* the promise loadManifest() returns
LoadManifestPromise == IF WouldStartLoad THEN nLoads + 1 ELSE manifestPromise

\* loadManifest() is called: its effect on manifestPromise, loads and nLoads
LoadManifest ==
    /\ WouldStartLoad => nLoads < MaxLoads
    /\ manifestPromise' = LoadManifestPromise
    /\ loads' = IF WouldStartLoad THEN loads \cup {nLoads + 1} ELSE loads
    /\ nLoads' = IF WouldStartLoad THEN nLoads + 1 ELSE nLoads

\* variant whose exhaustion also forgets the mirror
checkBlockSettingsForgetsUrl(bc, domainIndex) ==
    IF ~bc.enabled \/ Len(dnsDomains) = 0
    THEN [bc |-> bc, query |-> FALSE, exhausted |-> FALSE]
    ELSE IF domainIndex >= Len(dnsDomains)
    THEN [bc |-> [bc EXCEPT !.enabled = FALSE, !.redirectUrl = ""],
          query |-> FALSE, exhausted |-> TRUE]
    ELSE [bc |-> bc, query |-> TRUE, exhausted |-> FALSE]

\* variant without the guard on enabled
checkBlockSettingsUnguarded(bc, domainIndex) ==
    IF domainIndex >= Len(dnsDomains)
    THEN [bc |-> [bc EXCEPT !.enabled = FALSE], query |-> FALSE, exhausted |-> TRUE]
    ELSE [bc |-> bc, query |-> TRUE, exhausted |-> FALSE]

\* lines 28-43: what checkBlockSettings(domainIndex) does before it fetches
checkBlockSettings(bc, domainIndex) ==
    IF ~bc.enabled \/ Len(dnsDomains) = 0
    THEN [bc |-> bc, query |-> FALSE, exhausted |-> FALSE]
    ELSE IF domainIndex >= Len(dnsDomains)
    THEN [bc |-> [bc EXCEPT !.enabled = FALSE], query |-> FALSE, exhausted |-> TRUE]
    ELSE [bc |-> bc, query |-> TRUE, exhausted |-> FALSE]

\* variant that asks the same domain again
NextDomainAgain(domainIndex) == domainIndex

\* line 65: the index the chain continues with after a failure
NextDomain(domainIndex) == domainIndex + 1

\* variant that never redirects
AfterBlockCheckForwards(r, redirectUrl) == Forward(r)

\* lines 210-216: the answer once checkIfBlocked has resolved with redirectUrl
AfterBlockCheck(r, redirectUrl) ==
    IF redirectUrl # ""
    THEN Respond(r, [NoResp EXCEPT !.kind = "redirect", !.status = 302,
                                   !.location = redirectUrl])
    ELSE Forward(r)

\* lines 81-83 and 63-66: checkBlockSettings(domainIndex) is called; either a
\* DNS request goes out or the chain ends and the navigation is answered
RunBlockSettings(r, bc, domainIndex) ==
    LET c == checkBlockSettings(bc, domainIndex)
    IN  IF c.query
        THEN [r EXCEPT !.pc = "dns", !.dnsIdx = domainIndex,
                       !.dnsQueries = r.dnsQueries + 1,
                       !.dnsLog = Append(r.dnsLog, dnsDomains[domainIndex + 1])]
        ELSE AfterBlockCheck([r EXCEPT !.exhausted = c.exhausted], c.bc.redirectUrl)

\* line 204 and lines 221-225: the handler returns without respondWith
Ignore(r) ==
    Respond([r EXCEPT !.branch = "ignored"], [NoResp EXCEPT !.kind = "ignored"])

\* lines 69-76: checkIfBlocked resolves null at once, or requests '/'
StartBlockCheck(r) ==
    IF ~BLOCK_CONFIG.enabled \/ BLOCK_CONFIG.blockMarker = ""
    THEN Forward([r EXCEPT !.branch = "block"])
    ELSE [r EXCEPT !.branch = "block", !.pc = "rootFetch", !.rootChecked = TRUE]

\* lines 207-219: the block-detection branch of the fetch listener
BlockBranch(r) == StartBlockCheck(r)

\* line 227, reached only when lines 207, 221 and 225 did not return
DownloadableBranch(r) ==
    /\ ~(BLOCK_CONFIG.enabled /\ r.mode = "navigate")
    /\ ~IsOwnFile(r.pathname)
    /\ ~IsChunkStorage(r.pathname)
    /\ isDownloadable(r.pathname)
    /\ r.mode = "navigate"

\* lines 233-234: manifestLoaded ? Promise.resolve() : loadManifest(); the
\* continuation runs at once when there is nothing pending to wait for
ManifestBranch(r) ==
    LET inManifest == [r EXCEPT !.branch = "manifest"]
    IN  IF manifestLoaded \/ (~WouldStartLoad /\ manifestPromise \notin loads)
        THEN AfterManifest(inManifest, chunkedAssets)
        ELSE [inManifest EXCEPT !.pc = "awaitManifest", !.load = LoadManifestPromise,
                                !.startedLoad = WouldStartLoad]

\* lines 198-233: the branch the fetch listener takes
Dispatch(r) ==
    IF r.origin # "same" THEN Ignore(r)
    ELSE IF BLOCK_CONFIG.enabled /\ r.mode = "navigate" THEN BlockBranch(r)
    ELSE IF IsOwnFile(r.pathname) \/ IsChunkStorage(r.pathname) THEN Ignore(r)
    ELSE IF DownloadableBranch(r) THEN [r EXCEPT !.branch = "index", !.pc = "indexFetch"]
    ELSE ManifestBranch(r)

\* lines 198-249: the fetch listener, up to its first request
FetchEvent(r, origin, url, mode) ==
    /\ swState = "activated"
    /\ req[r].pc = "idle"
    /\ LET base == [ReqIdle EXCEPT !.origin = origin, !.url = url,
                       !.pathname = UrlPathname(url), !.mode = mode,
                       !.loadedAtArrival = manifestLoaded]
           new == Dispatch(base)
       IN  /\ req' = [req EXCEPT ![r] = new]
           /\ IF new.branch = "manifest" /\ ~manifestLoaded
              THEN LoadManifest
              ELSE UNCHANGED <<manifestPromise, loads, nLoads>>
    /\ UNCHANGED <<swState, chunkedAssets, manifestLoaded, lastReload, installLoad,
                   BLOCK_CONFIG, dnsDomains, now>>
    /\ UNCHANGED <<buildVars, dlVars, ldVars, bootVars>>

\* the manifest cache of the worker: the globals of lines 20-22 and the
\* loadManifest() fetches that are pending
ManifestState ==
    [chunkedAssets |-> chunkedAssets, manifestLoaded |-> manifestLoaded,
     manifestPromise |-> manifestPromise, loads |-> loads, nLoads |-> nLoads]

\* lines 95-126: loadManifest() called in the cache state s
loadManifest(s) ==
    IF s.manifestPromise # 0 THEN s
    ELSE [s EXCEPT !.manifestPromise = s.nLoads + 1,
                   !.loads = s.loads \cup {s.nLoads + 1},
                   !.nLoads = s.nLoads + 1]

\* variant whose failure leaves the memo in place
SettleManifestKeepsMemo(s, id, outcome, assets) ==
    IF outcome = "ok"
    THEN [s EXCEPT !.chunkedAssets = StoreAssets(<< >>, assets),
                   !.manifestLoaded = TRUE,
                   !.loads = s.loads \ {id}]
    ELSE [s EXCEPT !.loads = s.loads \ {id}]

\* lines 99-123: the fetch of load id settles in the cache state s. With an ok
\* response the map is rebuilt from the manifest document and manifestLoaded
\* set; otherwise the memo is cleared
SettleManifest(s, id, outcome, assets) ==
    IF outcome = "ok"
    THEN [s EXCEPT !.chunkedAssets = StoreAssets(<< >>, assets),
                   !.manifestLoaded = TRUE,
                   !.loads = s.loads \ {id}]
    ELSE [s EXCEPT !.manifestPromise = 0, !.loads = s.loads \ {id}]

\* lines 98-123: a loadManifest() fetch settles. The requests awaiting this
\* promise continue (lines 235-243), and so does install (line 183)
LoadSettle(id, outcome) ==
    /\ id \in loads
    /\ LET s == SettleManifest(ManifestState, id, outcome, manifestAssets)
       IN  /\ chunkedAssets' = s.chunkedAssets
           /\ manifestLoaded' = s.manifestLoaded
           /\ manifestPromise' = s.manifestPromise
           /\ loads' = s.loads
           /\ req' = [r \in DOMAIN req |->
                        IF req[r].pc = "awaitManifest" /\ req[r].load = id
                        THEN AfterManifest(req[r], s.chunkedAssets) ELSE req[r]]
    /\ swState' = IF swState = "installing" /\ installLoad = id
                  THEN "installed" ELSE swState
    /\ UNCHANGED <<nLoads, lastReload, installLoad, BLOCK_CONFIG, dnsDomains, now>>
    /\ UNCHANGED <<buildVars, dlVars, ldVars, bootVars>>

\* Promise.all(fetchPromises) in promise order, as {index, buffer} objects
PromiseAllResults(results, n) ==
    [k \in 1..n |-> [index |-> k - 1, buffer |-> results[k - 1]]]

\* results.sort((a, b) => a.index - b.index)
RECURSIVE SortByIndex(_)
SortByIndex(rs) ==
    IF rs = << >> THEN << >>
    ELSE LET k == CHOOSE i \in 1..Len(rs) : \A j \in 1..Len(rs) : rs[i].index <= rs[j].index
         IN  <<rs[k]>> \o SortByIndex([i \in 1..(Len(rs) - 1) |->
                                          IF i < k THEN rs[i] ELSE rs[i + 1]])

RECURSIVE ConcatBuffers(_)
ConcatBuffers(rs) ==
    IF rs = << >> THEN << >> ELSE Head(rs).buffer \o ConcatBuffers(Tail(rs))

RECURSIVE SumLengths(_)
SumLengths(rs) ==
    IF rs = << >> THEN 0 ELSE Len(Head(rs).buffer) + SumLengths(Tail(rs))

\* variant without the X-Chunked-Assembled header
AssembledUnmarked(r, results) ==
    LET sorted == SortByIndex(PromiseAllResults(results, r.totalChunks))
    IN  [NoResp EXCEPT !.kind = "assembled", !.status = 200,
            !.contentType = r.mimeType, !.contentLength = SumLengths(sorted),
            !.body = ConcatBuffers(sorted)]

\* lines 151-169: the response built once every part has arrived
Assembled(r, results) ==
    LET sorted == SortByIndex(PromiseAllResults(results, r.totalChunks))
    IN  [NoResp EXCEPT !.kind = "assembled", !.status = 200,
            !.contentType = r.mimeType, !.contentLength = SumLengths(sorted),
            !.marker = TRUE, !.body = ConcatBuffers(sorted)]

\* every part request is issued together (lines 137-149)
PartsIssued(totalChunks) == 0..(totalChunks - 1)

\* variant: the rejection is not caught, respondWith gets a rejected promise
AssembleFailedUncaught(r) ==
    Respond([r EXCEPT !.results = << >>, !.failed = TRUE],
            [NoResp EXCEPT !.kind = "rejected"])

\* lines 244-247: a rejection inside the chain is caught and the request forwarded
AssembleFailed(r) == Forward([r EXCEPT !.results = << >>, !.failed = TRUE])

\* lines 131-149: the metadata response; every part request is issued
MetaResponse(r, outcome) ==
    /\ req[r].pc = "meta"
    /\ outcome = "ok" => req[r].chunkedPath \in DOMAIN disk
    /\ req' = [req EXCEPT ![r] =
          IF outcome # "ok" THEN AssembleFailed(req[r])
          ELSE LET meta == disk[req[r].chunkedPath].meta
                   got == [req[r] EXCEPT !.mimeType = meta.mimeType,
                              !.totalChunks = meta.totalChunks,
                              !.outstanding = PartsIssued(meta.totalChunks),
                              !.maxOutstanding = Cardinality(PartsIssued(meta.totalChunks)),
                              !.pc = "parts"]
               IN  IF meta.totalChunks = 0 THEN Respond(got, Assembled(got, << >>))
                   ELSE got]
    /\ UNCHANGED <<swState, chunkedAssets, manifestLoaded, manifestPromise, loads, nLoads, lastReload,
                   installLoad, BLOCK_CONFIG, dnsDomains, now>>
    /\ UNCHANGED <<buildVars, dlVars, ldVars, bootVars>>

\* lines 141-146, 151: the response of part idx
PartResponse(r, idx, outcome) ==
    /\ idx \in req[r].outstanding
    /\ LET gone == [req[r] EXCEPT !.outstanding = req[r].outstanding \ {idx}]
           live == req[r].pc = "parts"
           results == [x \in (DOMAIN req[r].results) \cup {idx} |->
                          IF x = idx THEN disk[req[r].chunkedPath].parts[idx]
                          ELSE req[r].results[x]]
       IN  req' = [req EXCEPT ![r] =
              IF ~live THEN gone
              ELSE IF outcome # "ok" THEN AssembleFailed(gone)
              ELSE IF DOMAIN results = PartsIssued(req[r].totalChunks)
              THEN Respond([gone EXCEPT !.results = << >>], Assembled(gone, results))
              ELSE [gone EXCEPT !.results = results]]
    /\ UNCHANGED <<swState, chunkedAssets, manifestLoaded, manifestPromise, loads, nLoads, lastReload,
                   installLoad, BLOCK_CONFIG, dnsDomains, now>>
    /\ UNCHANGED <<buildVars, dlVars, ldVars, bootVars>>

\* fetch(event.request) settles: the network's response is handed on as it is
ForwardResponse(r, outcome) ==
    /\ req[r].pc = "forward"
    /\ req' = [req EXCEPT ![r] = Respond(req[r],
          IF outcome = "neterr" THEN [NoResp EXCEPT !.kind = "rejected"]
          ELSE [NoResp EXCEPT !.kind = "network",
                   !.status = IF outcome = "ok" THEN 200 ELSE 404])]
    /\ UNCHANGED <<swState, chunkedAssets, manifestLoaded, manifestPromise, loads, nLoads, lastReload,
                   installLoad, BLOCK_CONFIG, dnsDomains, now>>
    /\ UNCHANGED <<buildVars, dlVars, ldVars, bootVars>>

\* line 229: fetch('/index.html') settles; respondWith has no catch
IndexResponse(r, outcome) ==
    /\ req[r].pc = "indexFetch"
    /\ req' = [req EXCEPT ![r] = Respond(req[r],
          IF outcome = "neterr" THEN [NoResp EXCEPT !.kind = "rejected"]
          ELSE [NoResp EXCEPT !.kind = "index",
                   !.status = IF outcome = "ok" THEN 200 ELSE 404])]
    /\ UNCHANGED <<swState, chunkedAssets, manifestLoaded, manifestPromise, loads, nLoads, lastReload,
                   installLoad, BLOCK_CONFIG, dnsDomains, now>>
    /\ UNCHANGED <<buildVars, dlVars, ldVars, bootVars>>

\* lines 76-92: fetch('/') settles. The text is searched for the marker
\* BLOCK_CONFIG holds now; without it the DNS chain starts at index 0; a
\* rejected fetch resolves with the redirectUrl held now
RootResponse(r, outcome, doc) ==
    /\ req[r].pc = "rootFetch"
    /\ LET c == checkBlockSettings(BLOCK_CONFIG, 0)
           read == [req[r] EXCEPT !.rootDoc = doc]
       IN  /\ req' = [req EXCEPT ![r] =
                 IF outcome = "neterr" THEN AfterBlockCheck(req[r], BLOCK_CONFIG.redirectUrl)
                 ELSE IF BLOCK_CONFIG.blockMarker \in doc THEN AfterBlockCheck(read, "")
                 ELSE RunBlockSettings(read, BLOCK_CONFIG, 0)]
           /\ BLOCK_CONFIG' = IF outcome # "neterr" /\ BLOCK_CONFIG.blockMarker \notin doc
                              THEN c.bc ELSE BLOCK_CONFIG
    /\ UNCHANGED <<swState, chunkedAssets, manifestLoaded, manifestPromise, loads, nLoads, lastReload,
                   installLoad, dnsDomains, now>>
    /\ UNCHANGED <<buildVars, dlVars, ldVars, bootVars>>

\* lines 44-62: the DNS request of req r settles with a TXT record that parses:
\* the three fields and lastUpdate are overwritten and the chain stops
DnsRecord(r, rec) ==
    /\ req[r].pc = "dns"
    /\ now < MaxClock
    /\ now' = now + 1
    /\ BLOCK_CONFIG' = [enabled |-> rec.flag = 1, blockMarker |-> rec.marker,
                        redirectUrl |-> rec.url, lastUpdate |-> now + 1]
    /\ req' = [req EXCEPT ![r] = AfterBlockCheck([req[r] EXCEPT !.dnsAnswer = rec], rec.url)]
    /\ UNCHANGED <<swState, chunkedAssets, manifestLoaded, manifestPromise, loads, nLoads, lastReload,
                   installLoad, dnsDomains>>
    /\ UNCHANGED <<buildVars, dlVars, ldVars, bootVars>>

\* the ways a DNS request fails: the fetch rejects, the status is not ok (line
\* 46), there is no Answer section (50), the data does not parse (54)
DnsFailures == {"neterr", "notok", "noanswer", "unparsable"}

\* lines 44-52, 63-66: the DNS request fails: checkBlockSettings(domainIndex + 1)
DnsFailure(r, kind) ==
    /\ req[r].pc = "dns"
    /\ kind \in DnsFailures
    /\ LET c == checkBlockSettings(BLOCK_CONFIG, NextDomain(req[r].dnsIdx))
       IN  /\ BLOCK_CONFIG' = c.bc
           /\ req' = [req EXCEPT ![r] =
                        RunBlockSettings(req[r], BLOCK_CONFIG, NextDomain(req[r].dnsIdx))]
    /\ UNCHANGED <<swState, chunkedAssets, manifestLoaded, manifestPromise, loads, nLoads, lastReload,
                   installLoad, dnsDomains, now>>
    /\ UNCHANGED <<buildVars, dlVars, ldVars, bootVars>>

\* the page has its response; the slot is free for the next fetch event
Retire(r) ==
    /\ req[r].pc = "done"
    /\ req[r].outstanding = {}
    /\ req' = [req EXCEPT ![r] = ReqIdle]
    /\ UNCHANGED <<swState, chunkedAssets, manifestLoaded, manifestPromise, loads, nLoads, lastReload,
                   installLoad, BLOCK_CONFIG, dnsDomains, now>>
    /\ UNCHANGED <<buildVars, dlVars, ldVars, bootVars>>

\* lines 181-184: install: loadManifest() is called and waited for
InstallEvent ==
    /\ swState = "parsed"
    /\ swState' = "installing"
    /\ LoadManifest
    /\ installLoad' = LoadManifestPromise
    /\ UNCHANGED <<chunkedAssets, manifestLoaded, lastReload, BLOCK_CONFIG, dnsDomains,
                   req, now>>
    /\ UNCHANGED <<buildVars, dlVars, ldVars, bootVars>>

\* lines 186-196: activate: old caches are deleted and the clients claimed
ActivateEvent ==
    /\ swState = "installed"
    /\ swState' = "activated"
    /\ UNCHANGED <<chunkedAssets, manifestLoaded, manifestPromise, loads, nLoads, lastReload,
                   installLoad, BLOCK_CONFIG, dnsDomains, req, now>>
    /\ UNCHANGED <<buildVars, dlVars, ldVars, bootVars>>

MessageTypes == {"SKIP_WAITING", "RELOAD_MANIFEST", "CLAIM_CLIENTS", "PING"}

\* lines 253-263: what a message of the given type does to the manifest cache
OnMessage(s, type) ==
    IF type = "RELOAD_MANIFEST"
    THEN loadManifest([s EXCEPT !.manifestPromise = 0, !.manifestLoaded = FALSE])
    ELSE s

\* lines 264-266: the answer to PING
Pong == [type |-> "PONG", manifestLoaded |-> manifestLoaded]

\* lines 251-267: the message listener
Message(type) ==
    /\ swState # "parsed"
    /\ type = "RELOAD_MANIFEST" => nLoads < MaxLoads
    /\ LET s == OnMessage(ManifestState, type)
       IN  /\ manifestPromise' = s.manifestPromise
           /\ manifestLoaded' = s.manifestLoaded
           /\ loads' = s.loads
           /\ nLoads' = s.nLoads
           /\ lastReload' = IF type = "RELOAD_MANIFEST" THEN s.manifestPromise ELSE lastReload
    /\ UNCHANGED <<swState, chunkedAssets, installLoad, BLOCK_CONFIG, dnsDomains, req, now>>
    /\ UNCHANGED <<buildVars, dlVars, ldVars, bootVars>>

(***************************************************************************)
(* loader-generator.ts: the built-in download manager                      *)
(***************************************************************************)
\* the body of a response that is not ok (an error page)
ErrorBody == <<7>>

LdIdle ==
    [pc |-> "idle", path |-> << >>, chunkedPath |-> << >>, totalChunks |-> 0,
     outstanding |-> {}, maxOutstanding |-> 0, chunks |-> << >>, loaded |-> 0,
     percent |-> 0, toast |-> "", saved |-> << >>, nsaved |-> 0,
     requestFailed |-> FALSE]

\* the download remembers that one of its manifest, metadata or part requests
\* was rejected or answered with a status that is not ok
LdNoted(d, outcome) ==
    IF outcome = "ok" THEN d ELSE [d EXCEPT !.requestFailed = TRUE]

\* manifest.assets.find(a => a.originalPath === p || ('/' + a.originalPath) === p)
LdFindAssetIdx(assets, p) ==
    LET hits == {i \in 1..Len(assets) :
                    \/ assets[i].originalPath = p
                    \/ <<"/">> \o assets[i].originalPath = p}
    IN  IF hits = {} THEN 0 ELSE CHOOSE i \in hits : \A j \in hits : i <= j

\* lines 440-454: startDownload shows the toast and calls fetchChunkedAsset
LdStarted(d, pathname) ==
    [d EXCEPT !.pc = "manifest", !.path = pathname, !.toast = "Connecting..."]

\* lines 431-454: startDownload while no custom handler is registered
LDStart(pathname) ==
    /\ ld.pc = "idle"
    /\ ld' = LdStarted(ld, pathname)
    /\ UNCHANGED <<buildVars, dlVars, swVars, bootVars>>

\* lines 455-473: the two endings of startDownload
LdComplete(d, blob) ==
    [d EXCEPT !.pc = "done", !.saved = blob, !.nsaved = d.nsaved + 1,
              !.toast = "Download complete!"]

LdFailed(d) == [d EXCEPT !.pc = "failed", !.toast = "Download failed"]

\* lines 367-382: the manifest response (its status is not looked at: a body
\* that is no manifest rejects), the lookup, then the metadata request or the
\* request for the file itself
LDManifestResponse(outcome) ==
    /\ ld.pc = "manifest"
    /\ LET idx == LdFindAssetIdx(manifestAssets, ld.path)
       IN  ld' = IF outcome # "ok" THEN LdFailed(LdNoted(ld, outcome))
                 ELSE IF idx = 0 THEN [ld EXCEPT !.pc = "direct"]
                 ELSE [ld EXCEPT !.pc = "meta",
                          !.chunkedPath = manifestAssets[idx].chunkedPath]
    /\ UNCHANGED <<buildVars, dlVars, swVars, bootVars>>

\* line 374: fetch(assetPath).then(r => r.blob()): any response is saved
LDDirectResponse(outcome) ==
    /\ ld.pc = "direct"
    /\ outcome = "ok" => ServedFileIdx(NormalizedPath(ld.path)) # 0
    /\ ld' = IF outcome = "neterr" THEN LdFailed(ld)
             ELSE IF outcome = "notok" THEN LdComplete(ld, ErrorBody)
             ELSE LdComplete(ld, buildFiles[ServedFileIdx(NormalizedPath(ld.path))].content)
    /\ UNCHANGED <<buildVars, dlVars, swVars, bootVars>>

\* lines 407-416: every promise fulfilled: the buffers in index order
LdAssemble(d) == LdComplete(d, ConcatFrom(d.chunks, 0, Cardinality(DOMAIN d.chunks)))

\* lines 382-405: the metadata response (r.json() without a look at r.ok: the
\* body of a response that is not ok either does not parse, or parses to an
\* object without totalChunks); every part request is then issued
LDMetaResponse(outcome, parses) ==
    /\ ld.pc = "meta"
    /\ outcome = "ok" => parses
    /\ ld' = IF outcome = "neterr" \/ ~parses THEN LdFailed(LdNoted(ld, outcome))
             ELSE IF outcome = "notok" THEN LdAssemble(LdNoted(ld, outcome))
             ELSE LET meta == disk[ld.chunkedPath].meta
                  IN  [ld EXCEPT !.pc = "parts", !.totalChunks = meta.totalChunks,
                          !.outstanding = 0..(meta.totalChunks - 1),
                          !.maxOutstanding = meta.totalChunks]
    /\ UNCHANGED <<buildVars, dlVars, swVars, bootVars>>

\* lines 392-402: the response of part idx (r.arrayBuffer() without a look at
\* r.ok); the buffer is stored and onProgress called, also after a rejection
LDPartResponse(idx, outcome) ==
    /\ idx \in ld.outstanding
    /\ LET gone == [LdNoted(ld, outcome) EXCEPT !.outstanding = ld.outstanding \ {idx}]
           buf == IF outcome = "ok" THEN disk[ld.chunkedPath].parts[idx] ELSE ErrorBody
           stored == [gone EXCEPT
                        !.chunks = [x \in (DOMAIN ld.chunks) \cup {idx} |->
                                       IF x = idx THEN buf ELSE ld.chunks[x]],
                        !.loaded = ld.loaded + 1,
                        !.percent = RoundPercent(ld.loaded + 1, ld.totalChunks),
                        !.toast = "percent"]
       IN  ld' = IF outcome = "neterr"
                 THEN IF ld.pc = "parts" THEN LdFailed(gone) ELSE gone
                 ELSE IF ld.pc = "parts" /\ stored.outstanding = {}
                 THEN LdAssemble(stored)
                 ELSE stored
    /\ UNCHANGED <<buildVars, dlVars, swVars, bootVars>>

(***************************************************************************)
(* loader-generator.ts: the bootstrap (init, ensureSWReady, loadApp) and   *)
(* the dispatch of downloads; client/useChunkedDownload.ts: the            *)
(* DownloadManager component the application may mount                     *)
(***************************************************************************)
\* ServiceWorker.state of the worker of the registration as the page sees it
\* ("none": the registration holds no worker)
WorkerStates == {"none", "installing", "installed", "activating", "activated", "redundant"}

\* registration.active
RegistrationActive(w) == w \in {"activating", "activated"}

\* registration.installing || registration.waiting
RegistrationPending(w) == w \in {"installing", "installed"}

\* the state changes of a worker
WorkerStep(w) ==
    CASE w = "none" -> {"installing"}
      [] w = "installing" -> {"installed", "redundant"}
      [] w = "installed" -> {"activating", "redundant"}
      [] w = "activating" -> {"activated"}
      [] OTHER -> {}

\* location.pathname of the tab
RootPath == <<"/">>

FilePath == <<"/", "f", ".zip">>

\* lines 360-364
isDownloadableUrl(pathname) ==
    \E ext \in Downloadable : EndsWith(ToLowerCase(pathname), <<ext>>)

Inc(n) == Min(n + 1, MaxCount)

\* a page that has just been loaded (lines 16-29, 278-280): nothing has run
\* yet. supported, worker, controller, pathname and the generated STYLES and
\* SCRIPTS are the tab's, the rest is the state of the page; claims counts the
\* CLAIM_CLIENTS messages the page has posted, polls the 200 ms polls it has
\* run, loadApps the calls of loadApp
FreshPage(supported, worker, controller, pathname, nStyles, nScripts) ==
    [supported |-> supported, worker |-> worker, controller |-> controller,
     pathname |-> pathname, nStyles |-> nStyles, nScripts |-> nScripts,
     pc |-> "start", entryControlled |-> controller, openedAt |-> pathname,
     registered |-> 0, listening |-> FALSE, swListening |-> FALSE,
     controllerChanged |-> FALSE, timers |-> {}, claims |-> 0, polls |-> 0,
     loadApps |-> 0,
     styles |-> [i \in 1..nStyles |-> "none"],
     scripts |-> [i \in 1..nScripts |-> "none"],
     failure |-> "", interceptor |-> FALSE, customDownloadHandler |-> FALSE,
     mounted |-> FALSE, toasts |-> 0, managed |-> 0, clicks |-> 0,
     urlDownload |-> "none",
     reloads |-> 0, reloadBy |-> "none", retries |-> 0]

\* location.reload(): the document is loaded again at the same URL; the new
\* page is controlled when the registration has an active worker
Reloaded(b, by) ==
    [FreshPage(b.supported, b.worker, RegistrationActive(b.worker), b.pathname,
               b.nStyles, b.nScripts)
        EXCEPT !.reloads = Inc(b.reloads), !.reloadBy = by,
               !.retries = IF by = "failed" /\ b.failure \in {"style", "script"}
                           THEN Inc(b.retries) ELSE b.retries]

\* lines 431-438: startDownload hands the download to the registered handler
\* (DownloadManager's handleDownload, lines 169-186) or shows the built-in
\* toast and fetches the file itself
startDownload(b) ==
    IF b.customDownloadHandler
    THEN [b EXCEPT !.managed = Inc(@)]
    ELSE [b EXCEPT !.toasts = Inc(@)]

\* lines 476-486
handleDownloadableNavigation(b) ==
    IF ~isDownloadableUrl(b.pathname) THEN b
    ELSE LET started == startDownload([b EXCEPT !.pathname = RootPath])
         IN  [started EXCEPT !.urlDownload =
                 IF b.customDownloadHandler THEN "manager" ELSE "builtin"]

\* variant: every script is inserted at once
InsertAllScripts(b, i) ==
    IF i < b.nScripts
    THEN [b EXCEPT !.pc = "scripts",
                   !.scripts = [k \in 1..b.nScripts |->
                                   IF k > i THEN "pending" ELSE b.scripts[k]]]
    ELSE [b EXCEPT !.pc = "loaded"]

\* lines 70-87: the script after script i is inserted; after the last one the
\* chain resolves and loadApp's last callback runs (lines 96-101)
InsertNextScript(b, i) ==
    IF i < b.nScripts
    THEN [b EXCEPT !.pc = "scripts", !.scripts[i + 1] = "pending"]
    ELSE [b EXCEPT !.pc = "loaded"]

\* lines 89-95, 53-68: loadApp inserts every stylesheet; Promise.all of no
\* stylesheet is fulfilled at once and loadScripts starts
loadApp(b) ==
    LET linked == [b EXCEPT !.pc = "styles", !.loadApps = Inc(@),
                            !.styles = [i \in 1..b.nStyles |-> "pending"]]
    IN  IF b.nStyles = 0 THEN InsertNextScript(linked, 0) ELSE linked

\* lines 228-233: ensureSWReady resolved
Proceed(b) ==
    loadApp([handleDownloadableNavigation(b) EXCEPT !.interceptor = TRUE])

\* variant: the failure is only logged
FailSilently(b, failure) == [b EXCEPT !.pc = "failed", !.failure = failure]

\* lines 234-240: the catch of init: the reload timer is started
Fail(b, failure) ==
    [b EXCEPT !.pc = "failed", !.failure = failure, !.timers = @ \cup {"failed"}]

\* variant: every confirmation of control runs the callbacks of init
ConfirmControlAgain(b) == Proceed([b EXCEPT !.controllerChanged = TRUE])

\* lines 150-154, 163-167, 186-190: control is confirmed once
ConfirmControl(b) ==
    IF b.controllerChanged THEN b
    ELSE LET c == [b EXCEPT !.controllerChanged = TRUE]
         IN  IF b.pc = "handshake" THEN Proceed(c) ELSE c

\* the downloads a step of the page starts: the built-in download is the
\* loader's fetchChunkedAsset, the managed one DownloadManager's
\* downloadChunkedFile call (one of each is followed)
BootDownloads(path) ==
    /\ ld' = IF boot'.toasts > boot.toasts /\ ld.pc = "idle"
             THEN LdStarted(ld, path) ELSE ld
    /\ dl' = IF boot'.managed > boot.managed /\ dl.pc = "idle"
             THEN DlStarted(dl, path) ELSE dl
    /\ UNCHANGED <<buildVars, windowConcurrency, hook, swVars>>

\* a step of the page that starts no download
BootOnly == UNCHANGED <<buildVars, dlVars, swVars, ldVars>>

\* the page is replaced: its downloads end with it
BootReload(by) ==
    /\ boot' = Reloaded(boot, by)
    /\ dl' = DlIdle
    /\ hook' = HookIdle
    /\ ld' = LdIdle
    /\ UNCHANGED <<buildVars, windowConcurrency, swVars>>

\* variant of init that registers the worker whether or not the page is
\* controlled
BootInitAlwaysRegisters ==
    /\ boot.pc = "start"
    /\ boot' = IF ~boot.supported THEN [boot EXCEPT !.pc = "unsupported"]
               ELSE [boot EXCEPT !.pc = "registering", !.registered = Inc(@)]
    /\ BootDownloads(boot.pathname)

\* lines 214-227, 129-144: init() and the start of ensureSWReady
BootInit ==
    /\ boot.pc = "start"
    /\ boot' = IF ~boot.supported THEN [boot EXCEPT !.pc = "unsupported"]
               ELSE IF boot.controller THEN Proceed(boot)
               ELSE [boot EXCEPT !.pc = "registering", !.registered = Inc(@)]
    /\ BootDownloads(boot.pathname)

\* variant: the 5000 ms timer is never started
RegisteredNoTimeout(b) ==
    LET l == [b EXCEPT !.pc = "handshake", !.listening = TRUE]
    IN  IF RegistrationActive(b.worker)
        THEN [l EXCEPT !.timers = @ \cup {"claim"}, !.claims = Inc(@)]
        ELSE [l EXCEPT !.swListening = RegistrationPending(b.worker)]

\* lines 145-210: the promise of register() settles. Fulfilled, the
\* controllerchange listener is added and the registration looked at: an active
\* worker is sent CLAIM_CLIENTS and polled after 200 ms; otherwise the
\* statechange listener is added to an installing or waiting worker and the
\* 5000 ms timer started
Registered(b) ==
    LET l == [b EXCEPT !.pc = "handshake", !.listening = TRUE]
    IN  IF RegistrationActive(b.worker)
        THEN [l EXCEPT !.timers = @ \cup {"claim"}, !.claims = Inc(@)]
        ELSE [l EXCEPT !.swListening = RegistrationPending(b.worker),
                       !.timers = @ \cup {"hard"}]

RegisterSettles(ok) ==
    /\ boot.pc = "registering"
    /\ boot' = IF ok THEN Registered(boot) ELSE Fail(boot, "register")
    /\ BootOnly

\* variant: the listener claims as soon as the worker is activating
onStateChangeEarly(b, state) ==
    IF b.swListening /\ state \in {"activating", "activated"}
    THEN [b EXCEPT !.claims = Inc(@), !.timers = @ \cup {"activated"}]
    ELSE b

\* lines 179-197: the statechange listener of the installing or waiting
\* worker: activated, the worker is sent CLAIM_CLIENTS and the 200 ms poll
\* started
onStateChange(b, state) ==
    IF b.swListening /\ state = "activated"
    THEN [b EXCEPT !.claims = Inc(@), !.timers = @ \cup {"activated"}]
    ELSE b

\* the worker changes state and its statechange event is dispatched
StateChange(state) ==
    /\ boot.supported
    /\ boot.pc # "start"
    /\ state \in WorkerStep(boot.worker)
    /\ boot' = onStateChange([boot EXCEPT !.worker = state], state)
    /\ BootOnly

\* the active worker claims the page (clients.claim() in its activate
\* listener or on CLAIM_CLIENTS); lines 149-155: the controllerchange listener
ControllerChange ==
    /\ boot.pc # "start"
    /\ ~boot.controller
    /\ RegistrationActive(boot.worker)
    /\ boot' = LET c == [boot EXCEPT !.controller = TRUE]
               IN  IF boot.listening THEN ConfirmControl(c) ELSE c
    /\ BootDownloads(boot.pathname)

\* lines 161-172 and 184-195: the 200 ms poll after CLAIM_CLIENTS
PollTimer(timer) ==
    /\ timer \in {"claim", "activated"}
    /\ timer \in boot.timers
    /\ IF boot.controller
       THEN /\ boot' = ConfirmControl([boot EXCEPT !.timers = @ \ {timer},
                                                     !.polls = Inc(@)])
            /\ BootDownloads(boot.pathname)
       ELSE BootReload(timer)

\* lines 200-205: the 5000 ms timer
HardTimer ==
    /\ "hard" \in boot.timers
    /\ IF boot.controllerChanged
       THEN /\ boot' = [boot EXCEPT !.timers = @ \ {"hard"}]
            /\ BootOnly
       ELSE BootReload("hard")

\* lines 238-240: the 2000 ms timer of init's catch
FailedTimer ==
    /\ "failed" \in boot.timers
    /\ BootReload("failed")

AllLoaded(states) == \A i \in DOMAIN states : states[i] = "loaded"

\* lines 60, 92-95: a stylesheet's load event; after the last one loadScripts
\* starts
StyleLoads(i) ==
    /\ i \in DOMAIN boot.styles
    /\ boot.styles[i] = "pending"
    /\ boot' = LET b == [boot EXCEPT !.styles[i] = "loaded"]
               IN  IF boot.pc = "styles" /\ AllLoaded(b.styles)
                   THEN InsertNextScript(b, 0) ELSE b
    /\ BootOnly

\* lines 61-64: a stylesheet's error event rejects Promise.all
StyleFails(i) ==
    /\ i \in DOMAIN boot.styles
    /\ boot.styles[i] = "pending"
    /\ boot' = LET b == [boot EXCEPT !.styles[i] = "failed"]
               IN  IF boot.pc = "styles" THEN Fail(b, "style") ELSE b
    /\ BootOnly

\* line 78: a script's load event
ScriptLoads(i) ==
    /\ i \in DOMAIN boot.scripts
    /\ boot.scripts[i] = "pending"
    /\ boot' = LET b == [boot EXCEPT !.scripts[i] = "loaded"]
               IN  IF boot.pc = "scripts" THEN InsertNextScript(b, i) ELSE b
    /\ BootOnly

\* lines 79-82: a script's error event rejects the chain
ScriptFails(i) ==
    /\ i \in DOMAIN boot.scripts
    /\ boot.scripts[i] = "pending"
    /\ boot' = LET b == [boot EXCEPT !.scripts[i] = "failed"]
               IN  IF boot.pc = "scripts" THEN Fail(b, "script") ELSE b
    /\ BootOnly

\* useChunkedDownload.ts lines 210-246: the application (a loaded script)
\* mounts DownloadManager; its effects run in order: the click listener, the
\* download of the page's own path, the registration of the handler
Mount ==
    /\ ~boot.mounted
    /\ \E i \in DOMAIN boot.scripts : boot.scripts[i] = "loaded"
    /\ boot' = LET m == [boot EXCEPT !.mounted = TRUE, !.customDownloadHandler = TRUE]
               IN  IF isDownloadableUrl(boot.pathname)
                   THEN [m EXCEPT !.managed = Inc(@), !.urlDownload = "manager"]
                   ELSE m
    /\ BootDownloads(boot.pathname)

\* a click on a same-origin link to a downloadable file. Both listeners are
\* capture listeners of the document, and stopPropagation() keeps no other
\* listener of the same node from running: the loader's listener (lines
\* 490-521) calls startDownload, DownloadManager's listener
\* (useChunkedDownload.ts lines 211-226) calls handleDownload
LinkClick(path) ==
    /\ isDownloadableUrl(path)
    /\ boot.interceptor \/ boot.mounted
    /\ boot' = LET c == [boot EXCEPT !.clicks = Inc(@)]
                   a == IF boot.interceptor THEN startDownload(c) ELSE c
               IN  IF boot.mounted THEN [a EXCEPT !.managed = Inc(@)] ELSE a
    /\ BootDownloads(path)

(***************************************************************************)
(* index.ts: the build hooks of the plugin                                 *)
(***************************************************************************)
\* the files closeBundle generates (lines 120-130)
GeneratedFiles == {"chunked-loader.js", "chunked-sw.js", "chunked-assets.json"}

\* index.html as Vite emits it: the number of module script tags, of
\* stylesheet links and of links to fonts.googleapis.com, whether it has a
\* </head> tag, the loader's script tag and the success marker
IndexHtml(moduleScripts, stylesheets, fontLinks, head) ==
    [moduleScripts |-> moduleScripts, stylesheets |-> stylesheets,
     fontLinks |-> fontLinks, head |-> head, loader |-> FALSE, marker |-> FALSE]

\* lines 72-77: the plugin after chunkedPlugin(options) returned
ViteStarted(html) ==
    [pc |-> "bundled", html |-> html, extractedScripts |-> 0, extractedStyles |-> 0,
     written |-> {}]

\* no build is followed: the build directory is given as built
ViteUnused == [ViteStarted(IndexHtml(0, 0, 0, FALSE)) EXCEPT !.pc = "unused"]

\* lines 146-186: transformIndexHtml takes the module scripts and the
\* stylesheets (not the font links) out of index.html, inserts the loader's
\* script tag before </head> and appends the marker
transformIndexHtml ==
    /\ vite.pc = "bundled"
    /\ vite' = [vite EXCEPT !.pc = "html",
                   !.extractedScripts = vite.html.moduleScripts,
                   !.extractedStyles = vite.html.stylesheets,
                   !.html = [@ EXCEPT !.moduleScripts = 0, !.stylesheets = 0,
                                      !.loader = vite.html.head, !.marker = TRUE]]
    /\ UNCHANGED <<buildFiles, chunkSizeBytes, disk, manifestAssets, configConcurrency>>
    /\ UNCHANGED <<dlVars, swVars, ldVars, bootVars>>

\* lines 93-138: closeBundle chunks the build directory; with no asset
\* chunked it returns, otherwise it writes the loader, the worker and the
\* manifest
closeBundle ==
    /\ vite.pc = "html"
    /\ LET manifest == BuildOf(findFiles(buildFiles), chunkSizeBytes)
       IN  /\ disk' = manifest.disk
           /\ manifestAssets' = manifest.assets
           /\ vite' = [vite EXCEPT !.pc = "closed",
                          !.written = IF Len(manifest.assets) = 0
                                      THEN {} ELSE GeneratedFiles]
    /\ UNCHANGED <<buildFiles, chunkSizeBytes, configConcurrency>>
    /\ UNCHANGED <<dlVars, swVars, ldVars, bootVars>>

(***************************************************************************)
(* Specification of the service worker                                     *)
(***************************************************************************)
\* the build directory the service worker's server was built from
SWFiles ==
    << [relativePath |-> <<"a", ".js">>, content |-> <<0, 1, 1>>],
       [relativePath |-> <<"f", ".zip">>, content |-> <<1, 0>>],
       [relativePath |-> <<"s", ".css">>, content |-> <<1>>] >>

\* the URLs of the fetch events (same origin unless said otherwise)
SWUrls ==
    { <<"/">>,
      <<"/", "a", ".js">>,
      <<"/", "a", ".js", "?", "v">>,
      <<"/", "s", ".css">>,
      <<"/", "f", ".zip">>,
      <<"/", "f", ".ZIP">>,
      <<"/", "chunked-sw.js">>,
      <<"/", "chunked-loader.js">>,
      <<"/", "chunked-assets.json", "?", "v">>,
      <<"/", "_chunks", "/", "a", ".js", "/", "part_0.zst">>,
      <<"/", "_chunks", "/", "a", ".js", "/", "meta.json">> }

Modes == {"navigate", "cors"}

Origins == {"same", "cross"}

\* config.blockDetection as the plugin options give it
BlockConfigs ==
    [enabled : BOOLEAN, blockMarker : {"", "M0"}, redirectUrl : {"", "R0"},
     dnsDomains : {<< >>}]

\* the fetch events: every same-origin URL in both modes, and a cross-origin one
SWRequests ==
    [origin : {"same"}, url : SWUrls, mode : Modes]
        \cup {[origin |-> "cross", url |-> <<"/", "a", ".js">>, mode |-> "cors"]}

SWDnsRecords == {[flag |-> 1, marker |-> "M1", url |-> "R1"],
                 [flag |-> 0, marker |-> "", url |-> ""]}

SWRootDocs == {{}, Markers}

DlUnused == windowConcurrency = 0 /\ dl = DlIdle /\ hook = HookIdle

LdUnused == ld = LdIdle

\* no tab is followed
BootUnused == boot = FreshPage(FALSE, "none", FALSE, RootPath, 0, 0)

InitBuild(files, size) ==
    /\ vite = ViteUnused
    /\ buildFiles = files
    /\ chunkSizeBytes = size
    /\ disk = BuildOf(files, size).disk
    /\ manifestAssets = BuildOf(files, size).assets

\* the worker's globals after the script has run (lines 7-22), in a worker that
\* is about to be installed or in one the browser has started again
InitSW(cfg, states, ids) ==
    /\ swState \in states
    /\ chunkedAssets = << >>
    /\ manifestLoaded = FALSE
    /\ manifestPromise = 0
    /\ loads = {}
    /\ nLoads = 0
    /\ lastReload = 0
    /\ installLoad = 0
    /\ BLOCK_CONFIG = [enabled |-> cfg.enabled, blockMarker |-> cfg.blockMarker,
                       redirectUrl |-> cfg.redirectUrl, lastUpdate |-> 0]
    /\ dnsDomains = InitDnsDomains(cfg.enabled, cfg.dnsDomains)
    /\ req = [r \in ids |-> ReqIdle]
    /\ now = 0

Init ==
    /\ InitBuild(SWFiles, 1)
    /\ configConcurrency = MaxConcurrency
    /\ \E cfg \in BlockConfigs : InitSW(cfg, {"parsed", "activated"}, ReqIds)
    /\ DlUnused
    /\ LdUnused
    /\ BootUnused

Next ==
    \/ InstallEvent
    \/ ActivateEvent
    \/ \E type \in MessageTypes : Message(type)
    \/ \E id \in 1..MaxLoads, outcome \in Outcomes : LoadSettle(id, outcome)
    \/ \E r \in ReqIds, e \in SWRequests : FetchEvent(r, e.origin, e.url, e.mode)
    \/ \E r \in ReqIds, outcome \in Outcomes : MetaResponse(r, outcome)
    \/ \E r \in ReqIds, idx \in 0..MaxLen, outcome \in Outcomes : PartResponse(r, idx, outcome)
    \/ \E r \in ReqIds, outcome \in Outcomes : ForwardResponse(r, outcome)
    \/ \E r \in ReqIds, outcome \in Outcomes : IndexResponse(r, outcome)
    \/ \E r \in ReqIds, outcome \in Outcomes, doc \in SWRootDocs : RootResponse(r, outcome, doc)
    \/ \E r \in ReqIds, rec \in SWDnsRecords : DnsRecord(r, rec)
    \/ \E r \in ReqIds, kind \in DnsFailures : DnsFailure(r, kind)
    \/ \E r \in ReqIds : Retire(r)

Spec == Init /\ [][Next]_vars

(***************************************************************************)
(* Specification of one download of one file: through downloadChunkedFile, *)
(* through the loader's download manager, or as a fetch the service worker *)
(* reconstructs                                                            *)
(***************************************************************************)
\* every content of at most MaxLen bytes
Contents == UNION {[1..n -> Bytes] : n \in 0..MaxLen}

FetchFile(content) == [relativePath |-> <<"f", ".zip">>, content |-> content]

\* the path as the page passes it, with and without the leading slash
FetchPaths == {<<"/", "f", ".zip">>, <<"f", ".zip">>}

NoBlockDetection ==
    [enabled |-> FALSE, blockMarker |-> "", redirectUrl |-> "", dnsDomains |-> << >>]

\* nothing has been started yet: one behaviour follows one of the three paths
NothingStarted ==
    /\ dl = DlIdle
    /\ ld = LdIdle
    /\ \A r \in ReqIds : req[r] = ReqIdle

InitFetch ==
    /\ \E content \in Contents, size \in 1..MaxChunkSize :
          InitBuild(<<FetchFile(content)>>, size)
    /\ configConcurrency \in 1..MaxConcurrency
    /\ windowConcurrency \in {0, configConcurrency}
    /\ dl = DlIdle
    /\ hook = HookIdle
    /\ LdUnused
    /\ BootUnused
    /\ InitSW(NoBlockDetection, {"activated"}, ReqIds)

NextFetch ==
    \/ \E assetPath \in FetchPaths : NothingStarted /\ DLStart(assetPath)
    \/ \E outcome \in Outcomes : DLManifestResponse(outcome)
    \/ \E outcome \in Outcomes : DLMetaResponse(outcome)
    \/ \E j \in 0..MaxLen, outcome \in Outcomes : DLPartResponse(j, outcome)
    \/ \E outcome \in Outcomes, hasLength \in BOOLEAN : DLDirectResponse(outcome, hasLength)
    \/ \E n \in 1..MaxLen : DLDirectRead(n)
    \/ DLDirectDone
    \/ DLDirectReadError
    \/ NothingStarted /\ LDStart(<<"/", "f", ".zip">>)
    \/ \E outcome \in Outcomes : LDManifestResponse(outcome)
    \/ \E outcome \in Outcomes : LDDirectResponse(outcome)
    \/ \E outcome \in Outcomes, parses \in BOOLEAN : LDMetaResponse(outcome, parses)
    \/ \E idx \in 0..MaxLen, outcome \in Outcomes : LDPartResponse(idx, outcome)
    \/ NothingStarted /\ FetchEvent(1, "same", <<"/", "f", ".zip">>, "cors")
    \/ \E id \in 1..MaxLoads, outcome \in Outcomes : LoadSettle(id, outcome)
    \/ \E outcome \in Outcomes : MetaResponse(1, outcome)
    \/ \E idx \in 0..MaxLen, outcome \in Outcomes : PartResponse(1, idx, outcome)
    \/ \E outcome \in Outcomes : ForwardResponse(1, outcome)

SpecFetch == InitFetch /\ [][NextFetch]_vars

(***************************************************************************)
(* Specification of the manifest lookup: the manifest document stores each *)
(* originalPath in one of four forms; the server answers every request for *)
(* a part or a metadata file, the manifest document may be missing         *)
(***************************************************************************)
LookupFiles ==
    << [relativePath |-> <<"a", ".js">>, content |-> <<0, 1>>],
       [relativePath |-> <<"b", ".css">>, content |-> <<1, 1>>] >>

\* originalPath as the manifest document writes it
StoredForm(relativePath, slash, query) ==
    (IF slash THEN <<"/">> ELSE << >>) \o relativePath
        \o (IF query THEN <<"?", "v">> ELSE << >>)

\* the URLs a page requests a file of the build by
UrlsOf(relativePath) ==
    {<<"/">> \o relativePath, <<"/">> \o relativePath \o <<"?", "w">>}

LookupUrls ==
    UNION {UrlsOf(LookupFiles[i].relativePath) : i \in 1..Len(LookupFiles)}
        \cup {<<"/", "c", ".js">>}

InitLookup ==
    /\ vite = ViteUnused
    /\ buildFiles = LookupFiles
    /\ chunkSizeBytes = 1
    /\ disk = BuildOf(LookupFiles, 1).disk
    /\ \E slash \in [1..Len(LookupFiles) -> BOOLEAN], query \in [1..Len(LookupFiles) -> BOOLEAN] :
          manifestAssets =
              [i \in 1..Len(LookupFiles) |->
                  [BuildOf(LookupFiles, 1).assets[i] EXCEPT
                      !.originalPath = StoredForm(@, slash[i], query[i])]]
    /\ configConcurrency = MaxConcurrency
    /\ InitSW(NoBlockDetection, {"activated"}, ReqIds)
    /\ DlUnused
    /\ LdUnused
    /\ BootUnused

NextLookup ==
    \/ \E r \in ReqIds, url \in LookupUrls : FetchEvent(r, "same", url, "cors")
    \/ \E id \in 1..MaxLoads, outcome \in {"ok", "notok"} : LoadSettle(id, outcome)
    \/ \E r \in ReqIds : MetaResponse(r, "ok")
    \/ \E r \in ReqIds, idx \in 0..MaxLen : PartResponse(r, idx, "ok")
    \/ \E r \in ReqIds : ForwardResponse(r, "ok")
    \/ \E r \in ReqIds : Retire(r)

SpecLookup == InitLookup /\ [][NextLookup]_vars

(***************************************************************************)
(* Specification of block detection: the plugin options are merged with    *)
(* the defaults, the worker starts from the merged configuration, and       *)
(* several navigations are handled at a time. Nothing is chunked            *)
(***************************************************************************)
\* types.ts line 2: the marker the plugin appends to the HTML
SUCCESS_MARKER == "M0"

\* types.ts lines 131-134 (the resolver URL is not modelled)
DEFAULT_BLOCK_DETECTION == [enabled |-> FALSE]

\* { ...a, ...b }
Spread(a, b) ==
    [k \in (DOMAIN a) \cup (DOMAIN b) |-> IF k \in DOMAIN b THEN b[k] ELSE a[k]]

\* mergeConfig: blockDetection: { ...DEFAULT_CONFIG.blockDetection, ...options.blockDetection }
mergeConfig(options) == Spread(DEFAULT_BLOCK_DETECTION, options)

\* sw-generator.ts lines 10-11, 16: BLOCK_CONFIG as the worker reads it ("" and
\* << >> stand for a property that is undefined)
BlockConfigOf(blockDetection) ==
    [enabled |-> blockDetection.enabled,
     blockMarker |-> IF "blockMarker" \in DOMAIN blockDetection
                     THEN blockDetection.blockMarker ELSE "",
     redirectUrl |-> IF "redirectUrl" \in DOMAIN blockDetection
                     THEN blockDetection.redirectUrl ELSE "",
     dnsDomains |-> IF "dnsDomains" \in DOMAIN blockDetection
                    THEN blockDetection.dnsDomains ELSE << >>]

Restrict(f, D) == [k \in D |-> f[k]]

\* the fallback domains a configuration lists
FallbackDomains == <<"B", "C", "D", "E">>

DomainLists ==
    {SubSeq(FallbackDomains, 1, n) : n \in 0..(MaxDomains - 1)} \cup {<<"B", "cur">>}

\* options.blockDetection: any subset of the properties may be given
BlockOptions ==
    {Restrict([enabled |-> en, blockMarker |-> SUCCESS_MARKER, redirectUrl |-> "R0",
               dnsDomains |-> ds], D) :
        en \in BOOLEAN, ds \in DomainLists,
        D \in SUBSET {"enabled", "blockMarker", "redirectUrl", "dnsDomains"}}

NavIds == 1..MaxNav

BlockUrls == {<<"/">>, <<"/", "a", ".js">>}

BlockDnsRecords ==
    {[flag |-> 1, marker |-> "M1", url |-> "R1"],
     [flag |-> 1, marker |-> SUCCESS_MARKER, url |-> ""],
     [flag |-> 0, marker |-> "", url |-> ""],
     [flag |-> 0, marker |-> "M1", url |-> "R1"]}

InitBlock ==
    /\ InitBuild(<< >>, 1)
    /\ configConcurrency = MaxConcurrency
    /\ \E options \in BlockOptions :
          InitSW(BlockConfigOf(mergeConfig(options)), {"activated"}, NavIds)
    /\ DlUnused
    /\ LdUnused
    /\ BootUnused

NextBlock ==
    \/ \E r \in NavIds, url \in BlockUrls, mode \in Modes : FetchEvent(r, "same", url, mode)
    \/ \E id \in 1..MaxLoads, outcome \in {"ok", "notok"} : LoadSettle(id, outcome)
    \/ \E r \in NavIds, outcome \in Outcomes, doc \in SWRootDocs : RootResponse(r, outcome, doc)
    \/ \E r \in NavIds, rec \in BlockDnsRecords : DnsRecord(r, rec)
    \/ \E r \in NavIds, kind \in DnsFailures : DnsFailure(r, kind)
    \/ \E r \in NavIds, outcome \in {"ok", "neterr"} : ForwardResponse(r, outcome)
    \/ \E r \in NavIds : Retire(r)

SpecBlock == InitBlock /\ [][NextBlock]_vars

(***************************************************************************)
(* Specification of one download started through the useChunkedDownload    *)
(* hook, which the user may cancel at any moment                           *)
(***************************************************************************)
InitHook ==
    /\ \E content \in Contents, size \in 1..MaxChunkSize :
          InitBuild(<<FetchFile(content)>>, size)
    /\ configConcurrency \in 1..MaxConcurrency
    /\ windowConcurrency \in {0, configConcurrency}
    /\ dl = DlIdle
    /\ hook = HookIdle
    /\ LdUnused
    /\ BootUnused
    /\ InitSW(NoBlockDetection, {"activated"}, ReqIds)

NextHook ==
    \/ \E path \in FetchPaths : HookDownload(path)
    \/ HookCancel
    \/ HookDownloadAgain
    \/ \E ok \in BOOLEAN : HookLaterSettles(ok)
    \/ \E outcome \in Outcomes : DLManifestResponse(outcome)
    \/ \E outcome \in Outcomes : DLMetaResponse(outcome)
    \/ \E j \in 0..MaxLen, outcome \in Outcomes : DLPartResponse(j, outcome)
    \/ \E outcome \in Outcomes, hasLength \in BOOLEAN : DLDirectResponse(outcome, hasLength)
    \/ \E n \in 1..MaxLen : DLDirectRead(n)
    \/ DLDirectDone
    \/ DLDirectReadError

SpecHook == InitHook /\ [][NextHook]_vars

(***************************************************************************)
(* Specification of the bootstrap: one tab opened in a browser in which    *)
(* the worker may or may not be registered, installed or in control; the   *)
(* tab is reloaded by the loader as often as the loader asks for it        *)
(***************************************************************************)
\* the tabs: a page is controlled only by an active worker
BootTabs ==
    {FreshPage(supported, worker, controller, pathname, nStyles, nScripts) :
        supported \in BOOLEAN, worker \in WorkerStates \ {"redundant"},
        controller \in BOOLEAN, pathname \in {RootPath, FilePath},
        nStyles \in 0..MaxStyles, nScripts \in 0..MaxScripts}

InitBoot ==
    /\ InitBuild(<<FetchFile(<<1, 0>>)>>, 1)
    /\ configConcurrency = MaxConcurrency
    /\ InitSW(NoBlockDetection, {"activated"}, ReqIds)
    /\ DlUnused
    /\ LdUnused
    /\ boot \in {b \in BootTabs :
                    /\ b.controller => RegistrationActive(b.worker)
                    /\ b.supported \/ (b.worker = "none" /\ ~b.controller)}

BootTimers ==
    \/ \E timer \in {"claim", "activated"} : PollTimer(timer)
    \/ HardTimer
    \/ FailedTimer

NextBoot ==
    \/ BootInit
    \/ \E ok \in BOOLEAN : RegisterSettles(ok)
    \/ \E state \in WorkerStates : StateChange(state)
    \/ ControllerChange
    \/ BootTimers
    \/ \E i \in 1..MaxStyles : StyleLoads(i)
    \/ \E i \in 1..MaxStyles : StyleFails(i)
    \/ \E i \in 1..MaxScripts : ScriptLoads(i)
    \/ \E i \in 1..MaxScripts : ScriptFails(i)
    \/ Mount
    \/ LinkClick(FilePath)

SpecBoot == InitBoot /\ [][NextBoot]_vars

\* the browser runs the loader's script, settles the promise of register()
\* and fires every timer that was started
SpecBootFair ==
    /\ SpecBoot
    /\ WF_vars(BootInit)
    /\ WF_vars(\E ok \in BOOLEAN : RegisterSettles(ok))
    /\ WF_vars(BootTimers)

(***************************************************************************)
(* Specification of the build: a bundle of at most MaxFiles files and its  *)
(* index.html go through the two build hooks of the plugin                 *)
(***************************************************************************)
\* the paths of the bundle's files, relative to the build directory
BuildPaths ==
    { <<"a", "/", "b", ".zip">>, <<"a", "_", "b", ".zip">>, <<"x", ".js">>,
      <<"_chunks", "/", "o", ".zip">> }

BuildContents == {<<1>>, <<1, 0>>, <<0, 1, 1>>}

\* the build directories: no path twice, in any order
BuildDirs ==
    {dir \in UNION {[1..n -> [relativePath : BuildPaths, content : BuildContents]] :
                        n \in 0..MaxFiles} :
        \A i, j \in DOMAIN dir : i # j => dir[i].relativePath # dir[j].relativePath}

InitVite ==
    /\ buildFiles \in BuildDirs
    /\ chunkSizeBytes \in 1..MaxChunkSize
    /\ disk = << >>
    /\ manifestAssets = << >>
    /\ \E moduleScripts \in 0..1, stylesheets \in 0..1, fontLinks \in 0..1, head \in BOOLEAN :
          vite = ViteStarted(IndexHtml(moduleScripts, stylesheets, fontLinks, head))
    /\ configConcurrency = MaxConcurrency
    /\ InitSW(NoBlockDetection, {"parsed"}, ReqIds)
    /\ DlUnused
    /\ LdUnused
    /\ BootUnused

NextVite ==
    \/ transformIndexHtml
    \/ closeBundle

SpecVite == InitVite /\ [][NextVite]_vars

(***************************************************************************)
(* Properties                                                              *)
(***************************************************************************)
\* the one file of the download specification and where its parts are stored
TheFile == buildFiles[1]

TheParts == disk[ChunkedPathOf(TheFile.relativePath)].parts

\* C1: round-trip law. For every file the chunker splits, the parts 0 ..
\* totalChunks-1 concatenated in index order are the original bytes: in the
\* chunk directory as written, in the file downloadChunkedFile saves and in the
\* body the service worker assembles, in whatever order the parts arrived.
C1_RoundTrip ==
    /\ IsChunked(TheFile, chunkSizeBytes) => CombineChunks(TheParts) = TheFile.content
    /\ (dl.pc = "done" /\ IsChunked(TheFile, chunkSizeBytes)) =>
          /\ dl.chunkedPath # << >>
          /\ dl.saved = TheFile.content
    /\ \A r \in ReqIds :
          (req[r].pc = "done" /\ req[r].resp.kind = "assembled") =>
              req[r].resp.body = TheFile.content

\* a download is complete whose last part arrived before its first one
C1_Witness ==
    /\ dl.pc = "done"
    /\ IsChunked(TheFile, chunkSizeBytes)
    /\ dl.meta.totalChunks = 2
    /\ Len(TheParts[1]) < Len(TheParts[0])
    /\ dl.events[1].loaded = Len(TheParts[1])
    /\ dl.saved = TheFile.content

\* C6: in downloadChunkedFile with concurrency k, never more than k part
\* requests are outstanding, the requests outstanding while the call runs all
\* belong to the batch being awaited, and a call in which every part succeeds
\* has issued exactly ceil(n/k) batches.
C6_BoundedBatches ==
    /\ Cardinality(dl.outstanding) <= Concurrency
    /\ dl.maxOutstanding <= Concurrency
    /\ dl.pc = "batch" =>
          \A j \in dl.outstanding : dl.i <= j /\ j < dl.i + Concurrency
    /\ (dl.pc = "done" /\ dl.chunkedPath # << >>) =>
          dl.batches = CeilDiv(dl.meta.totalChunks, Concurrency)

\* a download of three parts in two batches of at most two has completed
C6_Witness ==
    /\ dl.pc = "done"
    /\ dl.meta.totalChunks = 3
    /\ Concurrency = 2
    /\ dl.batches = 2
    /\ dl.maxOutstanding = 2

\* the manifest entries a request path stands for: '/' + originalPath
ManifestAssetOf(pathname) ==
    {i \in 1..Len(manifestAssets) : <<"/">> \o manifestAssets[i].originalPath = pathname}

\* the sum of the lengths of parts 0 .. n-1 of a chunk directory
RECURSIVE PartLengthSum(_, _)
PartLengthSum(parts, n) ==
    IF n = 0 THEN 0 ELSE Len(parts[n - 1]) + PartLengthSum(parts, n - 1)

\* the reconstructed response the claim describes, for a chunk directory
IsReconstructed(q, dir) ==
    /\ q.resp.kind = "assembled"
    /\ q.resp.status = 200
    /\ q.resp.contentType = disk[dir].meta.mimeType
    /\ q.resp.contentLength = PartLengthSum(disk[dir].parts, disk[dir].meta.totalChunks)
    /\ q.resp.marker

\* the original request was forwarded and its response handed on as it came
IsPassedThrough(q) ==
    /\ q.forwarded
    /\ q.pc \in {"forward", "done"}
    /\ q.pc = "done" =>
          /\ q.resp.kind \in {"network", "rejected"}
          /\ ~q.resp.marker
          /\ q.resp.body = << >>

\* C2 as stated, for the requests that get as far as the manifest lookup: a
\* same-origin request that is not ignored and arrives once the manifest is
\* loaded is answered with the reconstructed response when its path is in the
\* manifest, and forwarded without marker otherwise.
C2_AlwaysReconstructed ==
    \A r \in ReqIds :
        LET q == req[r]
            hit == ManifestAssetOf(q.pathname)
        IN  (q.pc = "done" /\ q.origin = "same" /\ q.branch = "manifest"
                /\ q.loadedAtArrival) =>
                IF hit # {}
                THEN \E i \in hit : IsReconstructed(q, manifestAssets[i].chunkedPath)
                ELSE IsPassedThrough(q)

\* C2: a request that reaches the manifest branch once the manifest is loaded
\* is looked up; when its path is in the manifest and the metadata and every
\* part are fetched, the answer is the reconstructed response (200, the
\* metadata's mimeType, the sum of the part lengths, X-Chunked-Assembled);
\* when a fetch of the reconstruction fails, or the path is not in the
\* manifest, the original request is forwarded and no marker is added.
C2_ManifestBranch ==
    \A r \in ReqIds :
        LET q == req[r]
            hit == ManifestAssetOf(q.pathname)
        IN  (q.branch = "manifest" /\ q.loadedAtArrival) =>
                IF hit # {}
                THEN /\ \E i \in hit : q.chunkedPath = manifestAssets[i].chunkedPath
                     /\ q.failed => IsPassedThrough(q)
                     /\ (~q.failed /\ q.pc = "done") =>
                            /\ IsReconstructed(q, q.chunkedPath)
                            /\ ~q.forwarded
                     /\ ~q.failed => q.pc \in {"meta", "parts", "done"}
                ELSE q.chunkedPath = << >> /\ IsPassedThrough(q)

\* a request for a chunked asset has been answered with the reconstruction
C2_Witness ==
    \E r \in ReqIds :
        /\ req[r].loadedAtArrival
        /\ req[r].url = <<"/", "a", ".js", "?", "v">>
        /\ req[r].pc = "done"
        /\ req[r].resp.kind = "assembled"
        /\ req[r].resp.contentLength = 3
        /\ req[r].resp.contentType = "application/javascript"

\* C3: a reconstruction that fails (metadata or a part is not fetched) ends in
\* the original request being forwarded: the layer itself never rejects, an
\* answer is either the complete reconstruction or the forwarded request's
\* response, and no assembled bytes are returned after a failure.
C3_FailureForwards ==
    \A r \in ReqIds :
        LET q == req[r]
        IN  /\ q.pc \in {"meta", "parts"} => (q.resp = NoResp /\ ~q.failed)
            /\ q.failed => IsPassedThrough(q)
            /\ q.resp.kind = "assembled" =>
                  /\ ~q.failed
                  /\ ~q.forwarded
                  /\ q.resp.body = CombineChunks(disk[q.chunkedPath].parts)
            /\ (q.chunkedPath # << >> /\ q.pc = "done") =>
                  (q.failed \/ q.resp.kind = "assembled")
            /\ (q.resp.kind = "rejected" /\ q.branch = "manifest") => q.forwarded

\* a part failed after the metadata had been read, and the page got the
\* forwarded request's response
C3_Witness ==
    \E r \in ReqIds :
        /\ req[r].failed
        /\ req[r].totalChunks = 3
        /\ req[r].pc = "done"
        /\ req[r].resp.kind = "network"
        /\ req[r].resp.status = 200

\* C4 as stated: whatever branch answers, the page is never left with a failed
\* response while the original request was not forwarded.
C4_PassThroughFallback ==
    \A r \in ReqIds :
        (req[r].pc = "done" /\ req[r].resp.kind = "rejected") => req[r].forwarded

\* C7 as stated: the part requests outstanding in the service worker and in the
\* loader never exceed the configured concurrency.
C7_BoundedWindow ==
    /\ \A r \in ReqIds : Cardinality(req[r].outstanding) <= configConcurrency
    /\ Cardinality(ld.outstanding) <= configConcurrency

\* the URLs of the requests the layer is to leave alone
IgnoredTarget(q) ==
    \/ q.origin # "same"
    \/ q.url \in { <<"/", "chunked-sw.js">>, <<"/", "chunked-loader.js">>,
                    <<"/", "chunked-assets.json", "?", "v">>,
                    <<"/", "_chunks", "/", "a", ".js", "/", "part_0.zst">>,
                    <<"/", "_chunks", "/", "a", ".js", "/", "meta.json">> }

\* C8 as stated: cross-origin requests and requests for the layer's own files,
\* the chunk namespace or a meta.json are never answered.
C8_NeverAnswered ==
    \A r \in ReqIds :
        (req[r].pc # "idle" /\ IgnoredTarget(req[r])) =>
            /\ req[r].branch = "ignored"
            /\ req[r].resp.kind = "ignored"

\* C8: cross-origin requests and requests for the layer's own files, the chunk
\* namespace or a meta.json never start a manifest load or a reconstruction;
\* they are left untouched unless they are same-origin navigations, which the
\* block-detection branch may answer (forward or redirect); part and metadata
\* fetches, which are not navigations, are always left untouched.
C8_IgnoredUntouched ==
    \A r \in ReqIds :
        LET q == req[r]
        IN  (q.pc # "idle" /\ IgnoredTarget(q)) =>
                /\ q.load = 0
                /\ ~q.startedLoad
                /\ q.chunkedPath = << >>
                /\ q.outstanding = {}
                /\ q.resp.kind # "assembled"
                /\ q.branch \in {"ignored", "block"}
                /\ q.branch = "block" => (q.origin = "same" /\ q.mode = "navigate")
                /\ q.branch = "ignored" =>
                      (q.pc = "done" /\ q.resp.kind = "ignored" /\ ~q.forwarded)
                /\ (q.mode # "navigate" \/ q.origin # "same") => q.branch = "ignored"

\* a part fetch was left alone while the manifest was not loaded
C8_Witness ==
    \E r \in ReqIds :
        /\ req[r].url = <<"/", "_chunks", "/", "a", ".js", "/", "part_0.zst">>
        /\ req[r].mode = "cors"
        /\ req[r].resp.kind = "ignored"
        /\ ~manifestLoaded
        /\ nLoads = 0

\* C9 as stated: a same-origin navigation to a trigger-download path takes the
\* branch that answers with the root document, in every configuration.
C9_RootDocument ==
    \A r \in ReqIds :
        (req[r].pc # "idle" /\ req[r].origin = "same" /\ req[r].mode = "navigate"
            /\ isDownloadable(req[r].pathname)) => req[r].branch = "index"

\* C5: once a manifest is loaded, a request for an asset's path, with or
\* without a query string, resolves to that asset's chunkedPath, whether the
\* manifest stores originalPath with or without a leading slash and with or
\* without a query string.
C5_Lookup ==
    \A i \in 1..Len(manifestAssets) :
        \A url \in UrlsOf(buildFiles[i].relativePath) :
            /\ manifestLoaded =>
                  getChunkedPath(chunkedAssets, UrlPathname(url)) =
                      manifestAssets[i].chunkedPath
            /\ \A r \in ReqIds :
                  (req[r].url = url /\ req[r].loadedAtArrival) =>
                      req[r].chunkedPath = manifestAssets[i].chunkedPath

\* a request with a query string was reconstructed from a manifest that
\* stores the path with a leading slash and another query string
C5_Witness ==
    \E r \in ReqIds :
        /\ manifestAssets[1].originalPath = <<"/", "a", ".js", "?", "v">>
        /\ req[r].url = <<"/", "a", ".js", "?", "w">>
        /\ req[r].loadedAtArrival
        /\ req[r].pc = "done"
        /\ req[r].resp.kind = "assembled"

\* C10 as stated: at most one manifest load is in flight.
C10_OneLoadInFlight == Cardinality(loads) <= 1


(***************************************************************************)
(* Manifest load failure, invalidation and the control messages            *)
(***************************************************************************)
\* the step is the failure of the pending load id (lines 119-123)
LoadFails(id) ==
    /\ id \in loads
    /\ ManifestState' = SettleManifest(ManifestState, id, "notok", manifestAssets)

\* the step is a fetch event of slot r (the listener of lines 198-249 ran)
Arrives(r) == req[r].pc = "idle" /\ req'[r].pc # "idle"

Reloads == lastReload' # lastReload

\* C12: after RELOAD_MANIFEST is handled manifestLoaded is false and a new
\* manifest fetch is pending and memoized; and manifestLoaded (what PONG
\* reports, what lets a lookup run without awaiting a load) becomes true again
\* only through the success of a load started by or after the last invalidation
C12_ReloadInvalidates ==
    [][ /\ Reloads =>
              /\ ~manifestLoaded'
              /\ ~Pong'.manifestLoaded
              /\ nLoads' = nLoads + 1
              /\ nLoads' \in loads'
              /\ manifestPromise' = nLoads'
        /\ ~manifestLoaded /\ manifestLoaded' =>
              \A id \in loads \ loads' : id >= lastReload ]_vars

\* what the claim compares of the manifest cache: the asset map, manifestLoaded
\* and whether a load is memoized
CacheView(s) ==
    [chunkedAssets |-> s.chunkedAssets, manifestLoaded |-> s.manifestLoaded,
     memo |-> s.manifestPromise # 0]

\* the views the cache can end in once every pending load of s has settled, in
\* any order, each with a manifest document or without one
RECURSIVE SettledViews(_)
SettledViews(s) ==
    IF s.loads = {} THEN {CacheView(s)}
    ELSE UNION {SettledViews(SettleManifest(s, id, outcome, manifestAssets)) :
                    id \in s.loads, outcome \in {"ok", "notok"}}

\* C13: a control message delivered twice leaves the manifest cache, once every
\* load has settled, in a state that delivering it once can also leave it in,
\* and the other way round (the message handler touches nothing else)
C13_Idempotent ==
    swState # "parsed" =>
        \A type \in MessageTypes :
            SettledViews(OnMessage(OnMessage(ManifestState, type), type))
                = SettledViews(OnMessage(ManifestState, type))

\* C14: installation does not wait for the manifest load: while the load that
\* install started is pending, the install step can complete with the load
\* still pending; and a worker is never left uninstalled by a failed load
C14_InstallDoesNotWait ==
    /\ swState = "installing" /\ installLoad \in loads =>
            ENABLED (Next /\ swState' = "installed" /\ installLoad \in loads')
    /\ swState = "installing" => installLoad \in loads

(***************************************************************************)
(* Block detection                                                         *)
(***************************************************************************)
\* the step is a DNS answer of fetch event r that parses (lines 49-62)
DnsSucceeds(r) ==
    req[r].pc = "dns" /\ req[r].dnsAnswer = NoAnswer /\ req'[r].dnsAnswer # NoAnswer

\* the step is a failed DNS request of fetch event r (lines 63-66)
DnsFails(r) ==
    req[r].pc = "dns" /\ req'[r] # req[r] /\ req'[r].dnsAnswer = NoAnswer

\* the step issues a DNS request for fetch event r (line 44)
Queries(r) == Len(req'[r].dnsLog) > Len(req[r].dnsLog)

\* the step requests the root document for fetch event r (line 76)
RootCheckStarts(r) == ~req[r].rootChecked /\ req'[r].rootChecked

\* the step is the root document arriving with / without the marker (line 79)
MarkerFound(r) ==
    /\ req[r].pc = "rootFetch"
    /\ req'[r].rootDoc # NoDoc
    /\ BLOCK_CONFIG.blockMarker \in req'[r].rootDoc

MarkerMissing(r) ==
    /\ req[r].pc = "rootFetch"
    /\ req'[r].rootDoc # NoDoc
    /\ BLOCK_CONFIG.blockMarker \notin req'[r].rootDoc

\* the step decides the answer of the navigation r (lines 210-216)
Answered(r) ==
    req[r].pc \in {"rootFetch", "dns"} /\ req'[r].pc \in {"forward", "done"}

C16_CircuitBreaker ==
    /\ []((\E r \in NavIds : req[r].exhausted) => ~BLOCK_CONFIG.enabled)
    /\ [][ (\E r \in NavIds : req[r].exhausted) =>
              \A q \in NavIds : ~RootCheckStarts(q) /\ ~Queries(q) ]_vars

\* C17: the root document is requested and a domain queried only for a
\* navigation and only while enabled is true; and when the root document has
\* the marker the navigation is forwarded, no domain is queried and
\* BLOCK_CONFIG stays as it is
C17_OnlyNavigationsWhileEnabled ==
    /\ [](\A r \in NavIds :
            req[r].mode # "navigate" => ~req[r].rootChecked /\ req[r].dnsLog = << >>)
    /\ [][ \A r \in NavIds :
            /\ RootCheckStarts(r) \/ Queries(r) =>
                  BLOCK_CONFIG.enabled /\ req'[r].mode = "navigate"
            /\ MarkerFound(r) =>
                  /\ req'[r].pc = "forward"
                  /\ req'[r].dnsLog = << >>
                  /\ BLOCK_CONFIG' = BLOCK_CONFIG ]_vars

\* a navigation whose root document had the marker was forwarded while a
\* request that is not a navigation is being handled
C17_Witness ==
    \E r, q \in NavIds :
        /\ req[r].mode = "navigate"
        /\ req[r].rootDoc = Markers
        /\ req[r].pc = "forward"
        /\ req[q].mode = "cors"
        /\ req[q].pc = "awaitManifest"
        /\ BLOCK_CONFIG.enabled

C19_UpdatedOnlyByDns ==
    [][ /\ (\A r \in NavIds : ~DnsSucceeds(r)) /\ BLOCK_CONFIG' # BLOCK_CONFIG =>
              /\ BLOCK_CONFIG' = [BLOCK_CONFIG EXCEPT !.enabled = FALSE]
              /\ \E r \in NavIds : DnsFails(r) \/ MarkerMissing(r)
              /\ \E r \in NavIds : ~req[r].exhausted /\ req'[r].exhausted
        /\ \A r \in NavIds : Arrives(r) \/ MarkerFound(r) => BLOCK_CONFIG' = BLOCK_CONFIG ]_vars

\* the chain of a navigation ran out: enabled is cleared, the configured marker
\* and mirror are still there
C19_Witness ==
    \E r \in NavIds :
        /\ req[r].exhausted
        /\ Len(req[r].dnsLog) = 2
        /\ ~BLOCK_CONFIG.enabled
        /\ BLOCK_CONFIG.blockMarker = SUCCESS_MARKER
        /\ BLOCK_CONFIG.redirectUrl = "R0"
        /\ BLOCK_CONFIG.lastUpdate = 0

\* C20: as long as no DNS record has replaced the configuration, a worker with
\* block detection enabled checks for the default marker: BLOCK_CONFIG holds
\* SUCCESS_MARKER, and every navigation it answers through the block-detection
\* branch has requested the root document
C20_DefaultMarker ==
    BLOCK_CONFIG.lastUpdate = 0 =>
        \A r \in NavIds :
            req[r].branch = "block" =>
                req[r].rootChecked /\ BLOCK_CONFIG.blockMarker = SUCCESS_MARKER
\* the page has passed ensureSWReady and is loading the application, or has
\* failed doing so
Proceeded == boot.pc \in {"styles", "scripts", "loaded", "failed"} /\ boot.failure # "register"

\* C21: a page the worker already controls when init() runs makes no
\* registration call and starts none of the handshake's timers, so that the
\* handshake never reloads it; the step of init() itself installs the download
\* interceptor and inserts the stylesheets (or the first script).
C21_ControlledOnEntry ==
    /\ [](boot.supported /\ boot.entryControlled /\ boot.pc # "start" =>
            /\ boot.registered = 0
            /\ boot.timers \subseteq {"failed"}
            /\ boot.interceptor
            /\ Proceeded)
    /\ [][boot.supported /\ boot.entryControlled /\ boot'.reloads > boot.reloads =>
            boot'.reloadBy = "failed"]_vars

C21_Witness ==
    /\ boot.entryControlled
    /\ boot.reloads = 0
    /\ boot.pc = "loaded"
    /\ boot.nScripts = MaxScripts
    /\ boot.registered = 0

\* ensureSWReady has called register() and its promise is still pending
Handshaking == boot.pc \in {"registering", "handshake"}

\* ensureSWReady resolved and loadApp has run
AppLoading == boot.pc \in {"styles", "scripts", "loaded"}

\* C22: the handshake never stalls. Once an uncontrolled page has called
\* register(), whatever worker the registration holds and in whatever order
\* controllerchange, statechange and the timers arrive, the browser firing
\* every timer that was started, the page eventually either has control
\* confirmed and is loading the application, or has been reloaded.
C22_HandshakeEnds == Handshaking ~> (AppLoading \/ boot.pc = "start")

C22_Witness ==
    /\ boot.pc = "start"
    /\ boot.reloadBy = "hard"
    /\ boot.reloads = 1
    /\ ~RegistrationActive(boot.worker)

\* script i has been inserted into the document
Inserted(i) == boot.scripts[i] # "none"

\* C23: no script is inserted before every stylesheet has loaded; script i+1
\* is inserted only after script i has fired its load event; a stylesheet or
\* a script that failed to load leaves every later script uninserted.
C23_LoadingOrder ==
    /\ \A i \in DOMAIN boot.scripts : Inserted(i) => AllLoaded(boot.styles)
    /\ \A i \in DOMAIN boot.scripts :
          i > 1 /\ Inserted(i) => boot.scripts[i - 1] = "loaded"
    /\ (\E k \in DOMAIN boot.styles : boot.styles[k] = "failed") =>
          \A i \in DOMAIN boot.scripts : ~Inserted(i)
    /\ \A i \in DOMAIN boot.scripts :
          boot.scripts[i] = "failed" =>
              \A j \in DOMAIN boot.scripts : j > i => ~Inserted(j)

C23_Witness ==
    /\ boot.nStyles = MaxStyles
    /\ boot.nScripts = MaxScripts
    /\ boot.scripts[MaxScripts - 1] = "loaded"
    /\ boot.scripts[MaxScripts] = "pending"

\* init's catch has run: register() was rejected, or a stylesheet or a script
\* failed to load
StageFailed == boot.pc = "failed"

\* init has found no service worker support and returned
Unsupported == boot.pc = "unsupported"

\* C24 as stated: every failure of a bootstrap stage, missing service worker
\* support included, is followed by a reload of the page.
C24_EveryFailureReloads == (StageFailed \/ Unsupported) ~> boot.pc = "start"

\* C24: a rejected registration, a stylesheet or a script that fails to load
\* starts the reload timer and is followed by a reload of the page; a browser
\* without service worker support is told so and the page stays as it is.
C24_StageFailureReloads ==
    /\ [](StageFailed => "failed" \in boot.timers)
    /\ StageFailed ~> boot.pc = "start"
    /\ [](Unsupported => boot.timers = {} /\ boot.reloads = 0)
    /\ [][Unsupported => boot' = boot]_vars

C24_Witness ==
    /\ boot.pc = "start"
    /\ boot.reloadBy = "failed"
    /\ boot.reloads = 1

\* C25: a stylesheet or a script that fails to load is retried once: the
\* reloads that follow such a failure never number more than one.
C25_RetriedOnce == boot.retries <= 1

\* cancel() has aborted the controller of the call
UserCancelled == hook.attached /\ hook.aborted

\* after the cancellation no batch of part requests is issued
NoFurtherBatch == [][UserCancelled => dl'.batches = dl.batches]_vars

\* no progress event with complete = true reaches setProgress
NoCompleteDelivered == [](UserCancelled => ~hook.progress.complete)

\* the call that was cancelled leaves the hook with the cancellation error
EndsCancelled == [](UserCancelled /\ dl.pc \in Settled => hook.error = Cancelled)

\* after the cancellation no batch completes: no buffer is stored, nothing saved
NoBatchSideEffects ==
    [][UserCancelled /\ dl.chunkedPath # << >> =>
          dl'.chunks = dl.chunks /\ dl'.nsaved = dl.nsaved]_vars

\* C26: once the user has cancelled, part requests already issued may
\* complete, but no further batch is issued, no complete=true event reaches the
\* UI state, the download ends in the cancellation state and no batch
\* completes after the cancellation.
C26_Cancellation ==
    /\ NoFurtherBatch
    /\ NoCompleteDelivered
    /\ EndsCancelled
    /\ NoBatchSideEffects

\* the events the call has passed to onProgress so far
Events == dl.events

Succeeded == dl.pc = "done"

CompleteEvents == {k \in 1..Len(Events) : Events[k].complete}

C28_TerminalEvent ==
    /\ Succeeded =>
          /\ CompleteEvents = {Len(Events)}
          /\ Events # << >>
          /\ LET last == Events[Len(Events)]
             IN  /\ last.percentage = 100
                 /\ last.speed = 0
                 /\ last.eta = 0
                 /\ last.loaded = last.total
    /\ dl.pc = "failed" => CompleteEvents = {}

\* the request of part j of the batch in progress is answered without
\* success: no buffer is read and reportProgress does not run
PartFailed(j) ==
    /\ dl.pc = "batch"
    /\ j \in dl.outstanding
    /\ j \notin dl'.outstanding
    /\ dl'.events = dl.events

MetaFailed == dl.pc = "meta" /\ dl'.pc = "failed"

\* a call that has failed issues no batch, saves nothing and emits no
\* terminal event, whatever part answers later
Aborted ==
    dl.pc = "failed" =>
        /\ dl'.pc = "failed"
        /\ dl'.error = dl.error
        /\ dl'.batches = dl.batches
        /\ dl'.nsaved = 0
        /\ dl'.saved = << >>
        /\ CompleteEvents = {}

\* C29 as stated: a metadata request or a part request that fails or is not
\* ok rejects the call, for a part with an error that names the part's index,
\* and the reconstruction is abandoned.
C29_PartFailureNamesIndex ==
    [][/\ MetaFailed => dl'.error.index = -1
       /\ \A j \in 0..MaxLen :
             PartFailed(j) => dl'.pc = "failed" /\ dl'.error.index = j
       /\ Aborted]_vars

\* C29: a metadata request or a part request that fails or is not ok rejects
\* the call and the reconstruction is abandoned: no later batch is issued,
\* nothing is combined or saved and no complete=true event is emitted. The
\* error names the part's index when the part's response is not ok; a request
\* the network rejects passes on fetch's own error, which names no part.
C29_FailureAborts ==
    [][/\ MetaFailed => dl'.error.index = -1
       /\ \A j \in 0..MaxLen :
             PartFailed(j) =>
                 /\ dl'.pc = "failed"
                 /\ dl'.error \in {[msg |-> "Failed to fetch chunk", index |-> j],
                                   [msg |-> "network", index |-> -1]}
       /\ Aborted]_vars

C29_Witness ==
    /\ dl.pc = "failed"
    /\ dl.error.msg = "Failed to fetch chunk"
    /\ dl.error.index = 1
    /\ dl.batches = 1
    /\ dl.meta.totalChunks > Concurrency
    /\ Len(Events) >= 1

\* the download of the path the page was opened at went to the built-in
\* download code, which shows the toast
UrlDownloadBuiltIn == boot.urlDownload = "builtin"

\* C30: once DownloadManager is mounted the built-in toast is out of use: the
\* download of a page opened at a trigger-download URL has been handled by
\* DownloadManager, not by the built-in code, and no click on a download link
\* shows the built-in toast.
C30_ManagerTakesControl ==
    /\ [](boot.mounted => ~UrlDownloadBuiltIn)
    /\ [][boot.mounted /\ boot'.mounted => boot'.toasts = boot.toasts]_vars

\* the 200 ms polls that have been started and have not run yet
PendingPolls == boot.timers \cap {"claim", "activated"}

\* the step replaces the page by a reloaded one
PageReloaded == boot.pc # "start" /\ boot'.pc = "start"

LdEnded == ld.pc \in {"done", "failed"} /\ ld.outstanding = {}

\* C32: in the loader's built-in download, once a manifest, metadata or part
\* request was rejected or answered with a status that is not ok, no file is
\* saved and the toast never reads 'Download complete!'; at the end of the
\* download it reads 'Download failed'.
C32_FailureAborts ==
    ld.requestFailed =>
        /\ ld.nsaved = 0
        /\ ld.toast # "Download complete!"
        /\ LdEnded => ld.toast = "Download failed"

\* stylesheet or script i of the application has been requested
Requested(states, i) == states[i] # "none"

\* C33: a stylesheet or a script of the application is requested only by a
\* step that leaves the page controlled by the worker, a page with a requested
\* stylesheet or script is controlled, and loadApp runs at most once in a page
\* load, in whatever order controllerchange, statechange and the timers arrive.
C33_InterceptedFetches ==
    /\ [](/\ boot.loadApps <= 1
          /\ \A i \in DOMAIN boot.styles :
                Requested(boot.styles, i) => boot.controller
          /\ \A i \in DOMAIN boot.scripts :
                Requested(boot.scripts, i) => boot.controller)
    /\ [][/\ boot'.loadApps > boot.loadApps /\ ~PageReloaded =>
                boot'.controller /\ boot.loadApps = 0
          /\ boot.controller /\ ~PageReloaded => boot'.controller]_vars

C33_Witness ==
    /\ ~boot.entryControlled
    /\ boot.worker = "activated"
    /\ boot.swListening
    /\ boot.timers = {}
    /\ boot.polls = 1
    /\ boot.loadApps = 1
    /\ boot.nStyles = MaxStyles
    /\ AllLoaded(boot.scripts) /\ boot.nScripts = MaxScripts

\* the call of downloadChunkedFile has rejected
CallRejected == dl.pc = "failed"

\* C34: once the call of downloadChunkedFile has rejected, no step passes
\* another event to the progress callback.
C34_SilentAfterRejection == [][CallRejected => dl'.events = dl.events]_vars

\* the calls made through the hook that have not settled
RunningCalls ==
    (IF Running THEN {"followed"} ELSE {}) \cup
    (IF hook.later = "running" THEN {"later"} ELSE {})

\* C35: at most one call made through the hook is running at a time, and
\* isDownloading is true exactly while such a call has not settled; the abort
\* controller is held while a call is running.
C35_OneDownloadAtATime ==
    /\ Cardinality(RunningCalls) <= 1
    /\ hook.isDownloading <=> RunningCalls # {}
    /\ RunningCalls # {} => hook.abortController

\* the step invokes triggerDownload
Saves == dl'.nsaved > dl.nsaved

\* C36: once cancel() has aborted the controller of a call that had not
\* settled, no step of that call invokes triggerDownload, on the chunk path
\* and on the direct path.
C36_CancelledNeverSaves == [][UserCancelled => ~Saves]_vars

\* the step is a click on a link to a downloadable file
Clicked == boot'.clicks > boot.clicks

\* the downloads the step starts (the counters stop at MaxCount)
StartedByStep == (boot'.managed - boot.managed) + (boot'.toasts - boot.toasts)

\* C37: one click on a same-origin link to a downloadable file starts exactly
\* one download, whichever of the two click listeners are installed.
C37_OneClickOneDownload ==
    [][Clicked /\ boot.managed + 1 < MaxCount /\ boot.toasts < MaxCount =>
          StartedByStep = 1]_vars

\* the step answers navigation r with a redirect
Redirected(r) == Answered(r) /\ req'[r].resp.kind = "redirect"

\* C38: no navigation is answered with a redirect by a worker whose
\* BLOCK_CONFIG.enabled is false when the answer is produced; a navigation whose
\* DNS query returned a record with enabledFlag 0 is forwarded.
C38_NoRedirectWhileDisabled ==
    [][ \A r \in NavIds :
          /\ Redirected(r) => BLOCK_CONFIG'.enabled
          /\ DnsSucceeds(r) /\ req'[r].dnsAnswer.flag = 0 => req'[r].pc = "forward" ]_vars

\* closeBundle has run
Built == vite.pc = "closed"

\* the files of the build directory that the chunker split
ChunkedFiles ==
    {i \in DOMAIN buildFiles :
        /\ ~InChunksDir(buildFiles[i].relativePath)
        /\ IsChunked(buildFiles[i], chunkSizeBytes)}

\* C39: after a build, the files the chunker split have pairwise distinct
\* chunk directories, and the directory of each holds its own metadata and
\* its own parts.
C39_DistinctChunkDirectories ==
    Built =>
        /\ \A i, j \in ChunkedFiles :
              i # j => ChunkedPathOf(buildFiles[i].relativePath)
                          # ChunkedPathOf(buildFiles[j].relativePath)
        /\ \A i \in ChunkedFiles :
              LET dir == disk[ChunkedPathOf(buildFiles[i].relativePath)]
              IN  /\ dir.meta = FileMeta(buildFiles[i], chunkSizeBytes)
                  /\ dir.parts = FileParts(buildFiles[i].content, chunkSizeBytes)

\* the emitted index.html has lost its module scripts and stylesheets and
\* refers to the loader
HtmlRewritten ==
    /\ vite.html.moduleScripts = 0
    /\ vite.html.stylesheets = 0
    /\ vite.html.loader

\* C40: after a build whose index.html was rewritten to load the application
\* through /chunked-loader.js, the loader, the worker and the manifest are in
\* the build directory, also when no file was chunked.
C40_LoaderPresent == Built /\ HtmlRewritten => vite.written = GeneratedFiles
====
